---- MODULE Spec2Model ----
(***************************************************************************)
(* Worker queue of src/api/src/worker/queue.rs: a crossbeam SegQueue       *)
(* shared through Arc by cloneable Producer and Consumer handles, with an  *)
(* optional length counter behind an RwLock and a recommended max length.  *)
(*                                                                         *)
(* An Option<T> is a sequence of length 0 (None) or 1 (Some).  An Arc<T>   *)
(* is an index into the heap of its type: segq for Arc<SegQueue<T>>,       *)
(* rwlock for Arc<RwLock<usize>>.                                          *)
(*                                                                         *)
(* Each handle is used by one thread at a time; a call is a sequence of    *)
(* steps, one per access to shared state.  No step panics while it holds   *)
(* the lock, so the lock is never poisoned and unwrap() never fails.  The  *)
(* counter is a usize: within MaxPush it is far from wrapping upwards.     *)
(***************************************************************************)
EXTENDS Integers, Sequences, FiniteSets, TLC

\* Pushes issued through one producer handle.
MaxPush == 2
\* Largest max_len handed to with_max_len.
MaxLen == 1

\* The handles of tests::mpmc_push_pop*: tx, rx from build, tx2, rx2 cloned.
Producers == {"tx", "tx2"}
Consumers == {"rx", "rx2"}
Handles == Producers \cup Consumers

VARIABLES
    segq,    \* heap of SegQueue<T>: segq[q] is the content of queue q, head first
    rwlock,  \* heap of RwLock<usize>: [data, writer, readers]
    tx,      \* tx[p]: Option<Producer>, [queue, len_ctr: Option<[max_len, len]>]
    rx,      \* rx[c]: Option<Consumer>, [queue, len: Option<lock ref>]
    pc,      \* pc[h]: where the call in progress on handle h stands
    local,   \* local[h]: Option<T>, the msg argument of push / the msg bound in try_pop
    ret,     \* ret[h]: the value the last completed call on h returned
    issued,  \* history: issued[p] is the number of push calls made on p
    popped,  \* history: the messages try_pop returned as Some(msg), in return order
    to_check, \* Backpressure.to_check: the boxed producers, as handle names of tx
    linked,  \* the Backpressure has been linked into the chain (no add_queue any more)
    req,     \* req[r]: a request thread in before / check: [pc, i, result, status]
    wk,      \* the Worker thread: [pc]
    ctx,     \* the Worker's context
    units,   \* the invocations of the unit function in progress: [msg, saw]
    oneshot, \* the completions sent: [msg, value, taken], in the order of complete()
    mdl,     \* model.rs: an input string pair and what was made of it
    host,    \* api-futures: the router under construction or built, and a request
    people   \* api routes.rs: the store, and a get_person request

\* What the queue operations never touch: the gate, the requests, the worker.
env == <<to_check, linked, req, wk, ctx, units>>

\* What only the two web front ends use.
web == <<host, people>>

\* What only the application of main.rs and the functions of model.rs use.
more == <<oneshot, mdl, web>>

vars == <<segq, rwlock, tx, rx, pc, local, ret, issued, popped, env, more>>

None == <<>>
Some(x) == <<x>>

NoRet == [op |-> "none", full |-> FALSE, msg |-> None]

\* T is opaque to the queue: the n-th message pushed through handle p.
Msg(p, n) == [src |-> p, n |-> n]

Sum(f) == f["tx"] + f["tx2"]

\* QueueBuilder { max_len: None }
QueueBuilder_new == [max_len |-> None]

with_max_len(self, max_len) == [self EXCEPT !.max_len = Some(max_len)]

\* The RwLock::new(0) of build.
RwLock_new == [data |-> 0, writer |-> {}, readers |-> {}]

\* Faulty variant: one counter for all the queues of the process.
build_shared(self, hq, hl) ==
    LET queue == Len(hq) + 1
        len_ctr == IF self.max_len = None
                   THEN None
                   ELSE Some([max_len |-> self.max_len[1], len |-> 1])
    IN  [segq   |-> Append(hq, <<>>),
         rwlock |-> IF self.max_len = None \/ Len(hl) >= 1 THEN hl ELSE Append(hl, RwLock_new),
         tx     |-> [queue |-> queue, len_ctr |-> len_ctr],
         rx     |-> [queue |-> queue,
                     len |-> IF len_ctr = None THEN None ELSE Some(len_ctr[1].len)]]

\* QueueBuilder::build on the heaps hq, hl: the heaps after it and the pair.
build(self, hq, hl) ==
    LET queue == Len(hq) + 1
        len_ctr == IF self.max_len = None
                   THEN None
                   ELSE Some([max_len |-> self.max_len[1], len |-> Len(hl) + 1])
    IN  [segq   |-> Append(hq, <<>>),
         rwlock |-> IF self.max_len = None THEN hl ELSE Append(hl, RwLock_new),
         tx     |-> [queue |-> queue, len_ctr |-> len_ctr],
         rx     |-> [queue |-> queue,
                     len |-> IF len_ctr = None THEN None ELSE Some(len_ctr[1].len)]]

\* The builders the callers use: new() alone, or new().with_max_len(n).
Builders ==
    {QueueBuilder_new} \cup {with_max_len(QueueBuilder_new, n) : n \in 0..MaxLen}

\* No completion was sent, no model value made.
NoMore ==
    /\ oneshot = <<>>
    /\ mdl = <<>>
    /\ host = <<>>
    /\ people = <<>>

\* No Backpressure, no request thread, no Worker.
NoEnv ==
    /\ to_check = <<>>
    /\ linked = FALSE
    /\ req = <<>>
    /\ wk = [pc |-> "none"]
    /\ ctx = <<>>
    /\ units = {}
    /\ NoMore

Init ==
    \E b \in Builders :
        LET q == build(b, <<>>, <<>>) IN
        /\ segq = q.segq
        /\ rwlock = q.rwlock
        /\ tx = [p \in Producers |-> IF p = "tx" THEN Some(q.tx) ELSE None]
        /\ rx = [c \in Consumers |-> IF c = "rx" THEN Some(q.rx) ELSE None]
        /\ pc = [h \in Handles |-> "idle"]
        /\ local = [h \in Handles |-> None]
        /\ ret = [h \in Handles |-> NoRet]
        /\ issued = [p \in Producers |-> 0]
        /\ popped = <<>>
        /\ NoEnv

----------------------------------------------------------------------------
\* Clone for Producer / Consumer: both Arcs are cloned, nothing is copied.

\* Faulty variant: the clone loses the counter.
Producer_clone_bare(self) == [queue |-> self.queue, len_ctr |-> None]

Producer_clone(self) == [queue |-> self.queue, len_ctr |-> self.len_ctr]

Consumer_clone(self) == [queue |-> self.queue, len |-> self.len]

\* Faulty variant: the clone gets a copy of the queue instead of the Arc.
CloneProducer_deep(p, from) ==
    /\ tx[p] = None /\ tx[from] # None /\ pc[from] = "idle"
    /\ segq' = Append(segq, segq[tx[from][1].queue])
    /\ tx' = [tx EXCEPT ![p] = Some([tx[from][1] EXCEPT !.queue = Len(segq) + 1])]
    /\ UNCHANGED <<rwlock, rx, pc, local, ret, issued, popped>>
    /\ UNCHANGED env
    /\ UNCHANGED more

CloneProducer(p, from) ==
    /\ tx[p] = None /\ tx[from] # None /\ pc[from] = "idle"
    /\ tx' = [tx EXCEPT ![p] = Some(Producer_clone(tx[from][1]))]
    /\ UNCHANGED <<segq, rwlock, rx, pc, local, ret, issued, popped>>
    /\ UNCHANGED env
    /\ UNCHANGED more

CloneConsumer(c, from) ==
    /\ rx[c] = None /\ rx[from] # None /\ pc[from] = "idle"
    /\ rx' = [rx EXCEPT ![c] = Some(Consumer_clone(rx[from][1]))]
    /\ UNCHANGED <<segq, rwlock, tx, pc, local, ret, issued, popped>>
    /\ UNCHANGED env
    /\ UNCHANGED more

----------------------------------------------------------------------------
\* RwLock<usize>

CanWrite(l) == rwlock[l].writer = {} /\ rwlock[l].readers = {}
CanRead(l) == rwlock[l].writer = {}

\* SegQueue::push and SegQueue::try_pop, each linearizable.
\* Faulty variant: the message goes to the head.
SegQueue_push_front(q, msg) == <<msg>> \o q

SegQueue_push(q, msg) == Append(q, msg)
\* Faulty variant: the message taken stays queued.
SegQueue_rest_keep(q) == q

SegQueue_rest(q) == Tail(q)

\* Faulty variant: the newest message is taken.
SegQueue_first_last(q) == q[Len(q)]

SegQueue_first(q) == Head(q)

----------------------------------------------------------------------------
\* Producer::push(&self, msg)

\* Faulty variant: push is refused while the counter is at max_len.
Push_capped(p) ==
    /\ tx[p] # None /\ pc[p] = "idle"
    /\ issued[p] < MaxPush
    /\ tx[p][1].len_ctr # None =>
           rwlock[tx[p][1].len_ctr[1].len].data < tx[p][1].len_ctr[1].max_len
    /\ issued' = [issued EXCEPT ![p] = @ + 1]
    /\ local' = [local EXCEPT ![p] = Some(Msg(p, issued[p] + 1))]
    /\ pc' = [pc EXCEPT ![p] =
                    IF tx[p][1].len_ctr # None THEN "push_lock" ELSE "push_append"]
    /\ ret' = [ret EXCEPT ![p] = NoRet]
    /\ UNCHANGED <<segq, rwlock, tx, rx, popped>>
    /\ UNCHANGED env
    /\ UNCHANGED more

\* Faulty variant: push appends without counting.
Push_nocount(p) ==
    /\ tx[p] # None /\ pc[p] = "idle"
    /\ issued[p] < MaxPush
    /\ issued' = [issued EXCEPT ![p] = @ + 1]
    /\ local' = [local EXCEPT ![p] = Some(Msg(p, issued[p] + 1))]
    /\ pc' = [pc EXCEPT ![p] = "push_append"]
    /\ ret' = [ret EXCEPT ![p] = NoRet]
    /\ UNCHANGED <<segq, rwlock, tx, rx, popped>>
    /\ UNCHANGED env
    /\ UNCHANGED more

\* The call: `if let Some((_, ref len)) = self.1` picks the branch.
Push(p) ==
    /\ tx[p] # None /\ pc[p] = "idle"
    /\ issued[p] < MaxPush
    /\ issued' = [issued EXCEPT ![p] = @ + 1]
    /\ local' = [local EXCEPT ![p] = Some(Msg(p, issued[p] + 1))]
    /\ pc' = [pc EXCEPT ![p] =
                    IF tx[p][1].len_ctr # None THEN "push_lock" ELSE "push_append"]
    /\ ret' = [ret EXCEPT ![p] = NoRet]
    /\ UNCHANGED <<segq, rwlock, tx, rx, popped>>
    /\ UNCHANGED env
    /\ UNCHANGED more

\* let mut len = len.write().unwrap();
PushLock(p) ==
    /\ pc[p] = "push_lock"
    /\ LET l == tx[p][1].len_ctr[1].len IN
        /\ CanWrite(l)
        /\ rwlock' = [rwlock EXCEPT ![l].writer = {p}]
    /\ pc' = [pc EXCEPT ![p] = "push_inc"]
    /\ UNCHANGED <<segq, tx, rx, local, ret, issued, popped>>
    /\ UNCHANGED env
    /\ UNCHANGED more

\* Faulty variant: the write guard is kept over the append and never dropped.
PushInc_hold(p) ==
    /\ pc[p] = "push_inc"
    /\ LET l == tx[p][1].len_ctr[1].len IN
        rwlock' = [rwlock EXCEPT ![l].data = @ + 1]
    /\ pc' = [pc EXCEPT ![p] = "push_append"]
    /\ UNCHANGED <<segq, tx, rx, local, ret, issued, popped>>
    /\ UNCHANGED env
    /\ UNCHANGED more

\* Faulty variant: the increment is lost.
PushInc_lost(p) ==
    /\ pc[p] = "push_inc"
    /\ LET l == tx[p][1].len_ctr[1].len IN
        rwlock' = [rwlock EXCEPT ![l].writer = {}]
    /\ pc' = [pc EXCEPT ![p] = "push_append"]
    /\ UNCHANGED <<segq, tx, rx, local, ret, issued, popped>>
    /\ UNCHANGED env
    /\ UNCHANGED more

\* *len += 1; and the guard is dropped at the end of the block.
PushInc(p) ==
    /\ pc[p] = "push_inc"
    /\ LET l == tx[p][1].len_ctr[1].len IN
        rwlock' = [rwlock EXCEPT ![l].data = @ + 1, ![l].writer = {}]
    /\ pc' = [pc EXCEPT ![p] = "push_append"]
    /\ UNCHANGED <<segq, tx, rx, local, ret, issued, popped>>
    /\ UNCHANGED env
    /\ UNCHANGED more

\* self.0.push(msg)
PushAppend(p) ==
    /\ pc[p] = "push_append"
    /\ LET q == tx[p][1].queue IN
        segq' = [segq EXCEPT ![q] = SegQueue_push(@, local[p][1])]
    /\ local' = [local EXCEPT ![p] = None]
    /\ pc' = [pc EXCEPT ![p] = "idle"]
    /\ ret' = [ret EXCEPT ![p] = [op |-> "push", full |-> FALSE, msg |-> None]]
    /\ UNCHANGED <<rwlock, tx, rx, issued, popped>>
    /\ UNCHANGED env
    /\ UNCHANGED more

----------------------------------------------------------------------------
\* IsFull for Producer: is_full(&self) -> bool

\* The call: without a counter the else branch returns false at once.
IsFull(p) ==
    /\ tx[p] # None /\ pc[p] = "idle"
    /\ IF tx[p][1].len_ctr # None
       THEN /\ pc' = [pc EXCEPT ![p] = "full_lock"]
            /\ ret' = [ret EXCEPT ![p] = NoRet]
       ELSE /\ pc' = pc
            /\ ret' = [ret EXCEPT ![p] =
                          [op |-> "is_full", full |-> FALSE, msg |-> None]]
    /\ UNCHANGED <<segq, rwlock, tx, rx, local, issued, popped>>
    /\ UNCHANGED env
    /\ UNCHANGED more

\* let len = len.read().unwrap();
IsFullLock(p) ==
    /\ pc[p] = "full_lock"
    /\ LET l == tx[p][1].len_ctr[1].len IN
        /\ CanRead(l)
        /\ rwlock' = [rwlock EXCEPT ![l].readers = @ \cup {p}]
    /\ pc' = [pc EXCEPT ![p] = "full_read"]
    /\ UNCHANGED <<segq, tx, rx, local, ret, issued, popped>>
    /\ UNCHANGED env
    /\ UNCHANGED more

\* Faulty variant: *len > max_len.
IsFullRead_gt(p) ==
    /\ pc[p] = "full_read"
    /\ LET max_len == tx[p][1].len_ctr[1].max_len
           l == tx[p][1].len_ctr[1].len
       IN  /\ ret' = [ret EXCEPT ![p] =
                  [op |-> "is_full", full |-> (rwlock[l].data > max_len), msg |-> None]]
           /\ rwlock' = [rwlock EXCEPT ![l].readers = @ \ {p}]
    /\ pc' = [pc EXCEPT ![p] = "idle"]
    /\ UNCHANGED <<segq, tx, rx, local, issued, popped>>
    /\ UNCHANGED env
    /\ UNCHANGED more

\* Faulty variant: is_full clamps the counter to max_len.
IsFullRead_clamp(p) ==
    /\ pc[p] = "full_read"
    /\ LET max_len == tx[p][1].len_ctr[1].max_len
           l == tx[p][1].len_ctr[1].len
       IN  /\ ret' = [ret EXCEPT ![p] =
                  [op |-> "is_full", full |-> (rwlock[l].data >= max_len), msg |-> None]]
           /\ rwlock' = [rwlock EXCEPT ![l].readers = @ \ {p},
                                       ![l].data = IF @ > max_len THEN max_len ELSE @]
    /\ pc' = [pc EXCEPT ![p] = "idle"]
    /\ UNCHANGED <<segq, tx, rx, local, issued, popped>>
    /\ UNCHANGED env
    /\ UNCHANGED more

\* *len >= max_len, then the guard is dropped and the value returned.
IsFullRead(p) ==
    /\ pc[p] = "full_read"
    /\ LET max_len == tx[p][1].len_ctr[1].max_len
           l == tx[p][1].len_ctr[1].len
       IN  /\ ret' = [ret EXCEPT ![p] =
                  [op |-> "is_full", full |-> (rwlock[l].data >= max_len), msg |-> None]]
           /\ rwlock' = [rwlock EXCEPT ![l].readers = @ \ {p}]
    /\ pc' = [pc EXCEPT ![p] = "idle"]
    /\ UNCHANGED <<segq, tx, rx, local, issued, popped>>
    /\ UNCHANGED env
    /\ UNCHANGED more

----------------------------------------------------------------------------
\* Consumer::try_pop(&self) -> Option<T>

TryPop(c) ==
    /\ rx[c] # None /\ pc[c] = "idle"
    /\ pc' = [pc EXCEPT ![c] = "pop_segq"]
    /\ ret' = [ret EXCEPT ![c] = NoRet]
    /\ UNCHANGED <<segq, rwlock, tx, rx, local, issued, popped>>
    /\ UNCHANGED env
    /\ UNCHANGED more

\* Faulty variant: the counter is decremented on an empty queue too.
TryPopSegq_dec(c) ==
    /\ pc[c] = "pop_segq"
    /\ LET q == rx[c][1].queue IN
        IF segq[q] = <<>>
        THEN /\ ret' = [ret EXCEPT ![c] = [op |-> "try_pop", full |-> FALSE, msg |-> None]]
             /\ pc' = [pc EXCEPT ![c] = "idle"]
             /\ rwlock' = IF rx[c][1].len # None /\ CanWrite(rx[c][1].len[1])
                             /\ rwlock[rx[c][1].len[1]].data > 0
                          THEN [rwlock EXCEPT ![rx[c][1].len[1]].data = @ - 1]
                          ELSE rwlock
             /\ UNCHANGED <<segq, local, popped>>
        ELSE /\ segq' = [segq EXCEPT ![q] = SegQueue_rest(@)]
             /\ UNCHANGED rwlock
             /\ IF rx[c][1].len # None
                THEN /\ local' = [local EXCEPT ![c] = Some(SegQueue_first(segq[q]))]
                     /\ pc' = [pc EXCEPT ![c] = "pop_lock"]
                     /\ UNCHANGED <<ret, popped>>
                ELSE /\ ret' = [ret EXCEPT ![c] =
                            [op |-> "try_pop", full |-> FALSE,
                             msg |-> Some(SegQueue_first(segq[q]))]]
                     /\ popped' = Append(popped, SegQueue_first(segq[q]))
                     /\ pc' = [pc EXCEPT ![c] = "idle"]
                     /\ UNCHANGED local
    /\ UNCHANGED <<tx, rx, issued>>
    /\ UNCHANGED env
    /\ UNCHANGED more

\* `if let Some(msg) = self.0.try_pop()`: on an empty queue the else branch
\* returns None; without a counter Some(msg) is returned at once.
TryPopSegq(c) ==
    /\ pc[c] = "pop_segq"
    /\ LET q == rx[c][1].queue IN
        IF segq[q] = <<>>
        THEN /\ ret' = [ret EXCEPT ![c] = [op |-> "try_pop", full |-> FALSE, msg |-> None]]
             /\ pc' = [pc EXCEPT ![c] = "idle"]
             /\ UNCHANGED <<segq, local, popped>>
        ELSE /\ segq' = [segq EXCEPT ![q] = SegQueue_rest(@)]
             /\ IF rx[c][1].len # None
                THEN /\ local' = [local EXCEPT ![c] = Some(SegQueue_first(segq[q]))]
                     /\ pc' = [pc EXCEPT ![c] = "pop_lock"]
                     /\ UNCHANGED <<ret, popped>>
                ELSE /\ ret' = [ret EXCEPT ![c] =
                            [op |-> "try_pop", full |-> FALSE,
                             msg |-> Some(SegQueue_first(segq[q]))]]
                     /\ popped' = Append(popped, SegQueue_first(segq[q]))
                     /\ pc' = [pc EXCEPT ![c] = "idle"]
                     /\ UNCHANGED local
    /\ UNCHANGED <<rwlock, tx, rx, issued>>
    /\ UNCHANGED env
    /\ UNCHANGED more

\* let mut len = len.write().unwrap();
TryPopLock(c) ==
    /\ pc[c] = "pop_lock"
    /\ LET l == rx[c][1].len[1] IN
        /\ CanWrite(l)
        /\ rwlock' = [rwlock EXCEPT ![l].writer = {c}]
    /\ pc' = [pc EXCEPT ![c] = "pop_dec"]
    /\ UNCHANGED <<segq, tx, rx, local, ret, issued, popped>>
    /\ UNCHANGED env
    /\ UNCHANGED more

\* Faulty variant: the decrement is left out.
TryPopDec_keep(c) ==
    /\ pc[c] = "pop_dec"
    /\ LET l == rx[c][1].len[1] IN
        rwlock' = [rwlock EXCEPT ![l].writer = {}]
    /\ ret' = [ret EXCEPT ![c] = [op |-> "try_pop", full |-> FALSE, msg |-> local[c]]]
    /\ popped' = Append(popped, local[c][1])
    /\ local' = [local EXCEPT ![c] = None]
    /\ pc' = [pc EXCEPT ![c] = "idle"]
    /\ UNCHANGED <<segq, tx, rx, issued>>
    /\ UNCHANGED env
    /\ UNCHANGED more

\* *len -= 1; the guard is dropped and Some(msg) returned.
TryPopDec(c) ==
    /\ pc[c] = "pop_dec"
    /\ LET l == rx[c][1].len[1] IN
        rwlock' = [rwlock EXCEPT ![l].data = @ - 1, ![l].writer = {}]
    /\ ret' = [ret EXCEPT ![c] = [op |-> "try_pop", full |-> FALSE, msg |-> local[c]]]
    /\ popped' = Append(popped, local[c][1])
    /\ local' = [local EXCEPT ![c] = None]
    /\ pc' = [pc EXCEPT ![c] = "idle"]
    /\ UNCHANGED <<segq, tx, rx, issued>>
    /\ UNCHANGED env
    /\ UNCHANGED more

----------------------------------------------------------------------------
Next ==
    \/ \E p \in Producers, from \in Producers : CloneProducer(p, from)
    \/ \E c \in Consumers, from \in Consumers : CloneConsumer(c, from)
    \/ \E p \in Producers : Push(p)
    \/ \E p \in Producers : PushLock(p)
    \/ \E p \in Producers : PushInc(p)
    \/ \E p \in Producers : PushAppend(p)
    \/ \E p \in Producers : IsFull(p)
    \/ \E p \in Producers : IsFullLock(p)
    \/ \E p \in Producers : IsFullRead(p)
    \/ \E c \in Consumers : TryPop(c)
    \/ \E c \in Consumers : TryPopSegq(c)
    \/ \E c \in Consumers : TryPopLock(c)
    \/ \E c \in Consumers : TryPopDec(c)

Spec == Init /\ [][Next]_vars

----------------------------------------------------------------------------
\* Vocabulary of the properties.  Every handle of Spec is a clone of the pair
\* build returned, so the queue and its counter are those of tx.

Queue == segq[tx["tx"][1].queue]
LenCtr == tx["tx"][1].len_ctr
Monitored == LenCtr # None
MaxLenOf == LenCtr[1].max_len
Counter == rwlock[LenCtr[1].len].data

Pushing(p) == pc[p] \in {"push_lock", "push_inc", "push_append"}
Popping(c) == pc[c] \in {"pop_segq", "pop_lock", "pop_dec"}
NoPush == \A p \in Producers : ~Pushing(p)
NoPop == \A c \in Consumers : ~Popping(c)

\* push calls that have returned, on p and on all handles
Completed(p) == issued[p] - (IF Pushing(p) THEN 1 ELSE 0)
Pushes == Completed("tx") + Completed("tx2")
\* messages taken out of the transport, returned already or not
Removed == Len(popped) + Cardinality({c \in Consumers : local[c] # None})

\* the messages p.push was called with, in call order
PushOrder(p) == [i \in 1..issued[p] |-> Msg(p, i)]

SinglePair == tx["tx2"] = None /\ rx["rx2"] = None

\* the step on which is_full returns on p, try_pop on c
IsFullReturns(p) == ret[p].op # "is_full" /\ ret'[p].op = "is_full"
TryPopReturns(c) == ret[c].op # "try_pop" /\ ret'[c].op = "try_pop"

\* no push and no try_pop in progress on a handle other than h
Quiet(h) == \A k \in Handles \ {h} : ~Pushing(k) /\ ~Popping(k)

----------------------------------------------------------------------------
\* C1: on a single producer/consumer pair of a queue without max length, the
\* messages try_pop has returned, followed by those still queued and the one
\* a push in progress is about to append, are exactly the messages pushed,
\* in push order: nothing lost, nothing returned twice, FIFO.
C1_Fifo ==
    (SinglePair /\ ~Monitored) =>
        popped \o Queue \o local["tx"] = PushOrder("tx")

\* Two pushes, the first popped, the second still queued.
C1_Witness ==
    /\ SinglePair /\ ~Monitored
    /\ popped = <<Msg("tx", 1)>>
    /\ Queue = <<Msg("tx", 2)>>
    /\ ret["rx"].msg = Some(Msg("tx", 1))

\* C2: is_full returns true iff the handle has a counter and the counter it
\* reads is >= max_len; on a queue built without max length it returns false
\* whatever is queued.
C2_IsFull ==
    [][\A p \in Producers :
          IsFullReturns(p) =>
              ret'[p].full = (IF Monitored THEN Counter >= MaxLenOf ELSE FALSE)]_vars

\* is_full has answered false on a queue without max length holding 3 messages.
C2_Witness ==
    /\ ~Monitored /\ Len(Queue) = 3
    /\ ret["tx2"].op = "is_full" /\ ~ret["tx2"].full

\* C3: with max length W, an is_full that reads the counter after exactly W
\* completed pushes and no pop returns true; after one subsequent completed
\* try_pop it returns false.
C3_Watermark ==
    [][\A p \in Producers :
          (Monitored /\ IsFullReturns(p) /\ Pushes = MaxLenOf) =>
              /\ (Removed = 0 => ret'[p].full)
              /\ (NoPush /\ NoPop /\ Len(popped) = 1 => ~ret'[p].full)]_vars

\* W = 1: one push, one pop, and is_full has answered false.
C3_Witness ==
    /\ Monitored /\ MaxLenOf = 1 /\ Sum(issued) = 1 /\ Len(popped) = 1
    /\ NoPush /\ NoPop
    /\ ret["tx"].op = "is_full" /\ ~ret["tx"].full


----------------------------------------------------------------------------
\* C4 as stated: max_len = 1 and push, push, try_pop, try_pop one after the
\* other: is_full is true after the first push and after the second, false
\* after the first try_pop, and the second try_pop finds the queue empty and
\* returns None.
C4_AsStated ==
    [][(Monitored /\ MaxLenOf = 1) =>
          /\ \A p \in Producers :
                (IsFullReturns(p) /\ NoPush /\ NoPop) =>
                    /\ (Pushes = 1 /\ Len(popped) = 0 => ret'[p].full)
                    /\ (Pushes = 2 /\ Len(popped) = 0 => ret'[p].full)
                    /\ (Pushes = 2 /\ Len(popped) = 1 => ~ret'[p].full)
          /\ \A c \in Consumers :
                (TryPopReturns(c) /\ Quiet(c) /\ Pushes = 2 /\ Len(popped) = 1) =>
                    ret'[c].msg = None]_vars

\* C4, amended: max_len = 1 and push, push, try_pop, try_pop one after the
\* other: is_full is true after the first push; the second push is accepted
\* (both messages are queued) and is_full stays true; after the first
\* try_pop is_full is still true, the counter being 1; the second try_pop
\* returns the second message and only then is is_full false; a try_pop on
\* the queue thus emptied returns None, an ordinary return.
C4_Scenario ==
    [][(Monitored /\ MaxLenOf = 1) =>
          /\ \A p \in Producers :
                (IsFullReturns(p) /\ NoPush /\ NoPop) =>
                    /\ (Pushes = 1 /\ Len(popped) = 0 => ret'[p].full)
                    /\ (Pushes = 2 /\ Len(popped) = 0 =>
                            ret'[p].full /\ Len(Queue) = 2)
                    /\ (Pushes = 2 /\ Len(popped) = 1 => ret'[p].full)
                    /\ (Pushes = 2 /\ Len(popped) = 2 => ~ret'[p].full)
          /\ \A c \in Consumers :
                (TryPopReturns(c) /\ Quiet(c) /\ Pushes = 2) =>
                    /\ (Len(popped) = 1 => ret'[c].msg # None)
                    /\ (Len(popped) = 2 => ret'[c].msg = None /\ pc'[c] = "idle")]_vars

\* push, push, try_pop done on one pair, and is_full has answered true.
C4_Witness ==
    /\ Monitored /\ MaxLenOf = 1 /\ SinglePair
    /\ issued["tx"] = 2 /\ Len(popped) = 1 /\ NoPush /\ NoPop
    /\ ret["tx"].op = "is_full" /\ ret["tx"].full

\* C5: with no push and no try_pop in progress, is_full returns on every
\* producer clone (pushes through all producer clones - successful pops
\* through all consumer clones) >= W; with max_len = 1, one push through
\* each producer clone and two pops, every clone answers not full.
C5_ClonesAgree ==
    [][\A p \in Producers :
          (Monitored /\ IsFullReturns(p) /\ NoPush /\ NoPop) =>
              /\ ret'[p].full = (Sum(issued) - Len(popped) >= MaxLenOf)
              /\ (MaxLenOf = 1 /\ issued["tx"] = 1 /\ issued["tx2"] = 1
                    /\ Len(popped) = 2 => ~ret'[p].full)]_vars

\* tests::mpmc_push_pop_max_len: one push on each of tx, tx2, one pop on each
\* of rx, rx2, and both tx and tx2 have answered not full.
C5_Witness ==
    /\ Monitored /\ MaxLenOf = 1
    /\ issued["tx"] = 1 /\ issued["tx2"] = 1
    /\ ret["rx"].msg # None /\ ret["rx2"].msg # None
    /\ ret["tx"].op = "is_full" /\ ~ret["tx"].full
    /\ ret["tx2"].op = "is_full" /\ ~ret["tx2"].full

\* C6: push is never refused and never waits for capacity: an idle handle
\* can always start a push, a push waits for nothing but the counter lock,
\* and with no message taken out the queue holds as many messages as pushes
\* have returned, beyond max_len too.
C6_PushNeverRefused ==
    /\ \A p \in Producers :
          /\ (tx[p] # None /\ pc[p] = "idle" /\ issued[p] < MaxPush) => ENABLED Push(p)
          /\ (pc[p] = "push_lock" /\ CanWrite(LenCtr[1].len)) => ENABLED PushLock(p)
          /\ pc[p] = "push_inc" => ENABLED PushInc(p)
          /\ pc[p] = "push_append" => ENABLED PushAppend(p)
    /\ Removed = 0 => Len(Queue) = Pushes

\* More messages queued than max_len, none taken out.
C6_Witness ==
    /\ Monitored /\ Removed = 0 /\ NoPush
    /\ Len(Queue) > MaxLenOf + 1 /\ Counter > MaxLenOf + 1

\* C7: a try_pop that finds the queue empty returns None and changes neither
\* a queue nor a counter; the counter goes down only by one, on the step on
\* which a try_pop returns Some(msg).
C7_EmptyPop ==
    [][/\ \A c \in Consumers :
            (pc[c] = "pop_segq" /\ pc'[c] # "pop_segq" /\ segq[rx[c][1].queue] = <<>>) =>
                /\ ret'[c] = [op |-> "try_pop", full |-> FALSE, msg |-> None]
                /\ pc'[c] = "idle"
                /\ UNCHANGED <<segq, rwlock, popped>>
       /\ (Monitored /\ Counter' < Counter) =>
            /\ Counter' = Counter - 1
            /\ \E c \in Consumers : TryPopReturns(c) /\ ret'[c].msg # None]_vars

\* A try_pop has returned None on a monitored queue emptied by an earlier pop.
C7_Witness ==
    /\ Monitored /\ Len(popped) = 1 /\ Queue = <<>> /\ Counter = 0
    /\ ret["rx2"].op = "try_pop" /\ ret["rx2"].msg = None

\* C8: every producer and consumer clone refers to the one queue build made:
\* a push through any clone appends to it, a try_pop through any clone takes
\* its head, and cloning a handle leaves every queue and counter as it was.
C8_SameQueue ==
    [][/\ Len(segq') = 1
       /\ \A p \in Producers : tx'[p] # None => tx'[p][1] = tx'["tx"][1]
       /\ \A c \in Consumers : rx'[c] # None => rx'[c][1] = rx'["rx"][1]
       /\ rx'["rx"][1].queue = tx'["tx"][1].queue
       /\ (tx' # tx \/ rx' # rx) => UNCHANGED <<segq, rwlock>>
       /\ \A p \in Producers :
            (pc[p] = "push_append" /\ pc'[p] = "idle") =>
                Queue' = Append(Queue, local[p][1])
       /\ \A c \in Consumers :
            (pc[c] = "pop_segq" /\ pc'[c] # "pop_segq" /\ Queue # <<>>) =>
                /\ Queue' = Tail(Queue)
                /\ (local'[c] = Some(Head(Queue)) \/ ret'[c].msg = Some(Head(Queue)))]_vars

\* A message pushed through tx2 was popped through rx, one pushed through tx
\* through rx2.
C8_Witness ==
    /\ ret["rx"].msg # None /\ ret["rx"].msg[1].src = "tx2"
    /\ ret["rx2"].msg # None /\ ret["rx2"].msg[1].src = "tx"

\* the messages of a sequence s that handle p pushed
RECURSIVE From(_, _)
From(s, p) ==
    IF s = <<>> THEN <<>>
    ELSE (IF Head(s).src = p THEN <<Head(s)>> ELSE <<>>) \o From(Tail(s), p)

Range(s) == {s[i] : i \in 1..Len(s)}

\* every message a push was called with
AllIssued == {Msg(p, i) : p \in {"tx"}, i \in 1..issued["tx"]}
                \cup {Msg(p, i) : p \in {"tx2"}, i \in 1..issued["tx2"]}

\* every message somewhere between push and the return of try_pop
Held == popped \o local["rx"] \o local["rx2"] \o Queue \o local["tx"] \o local["tx2"]

\* C9: under every interleaving of the pushing handles each pushed message
\* is in exactly one place, and once the pushes have returned and the queue
\* is drained (it is empty and no try_pop is in progress, so try_pop returns
\* None) the messages popped are the messages pushed, each exactly once:
\* 2 * MaxPush of them when both handles made MaxPush pushes.
C9_Drained ==
    /\ Len(Held) = Sum(issued) /\ Range(Held) = AllIssued
    /\ (NoPush /\ NoPop /\ Queue = <<>>) =>
          /\ Range(popped) = AllIssued /\ Len(popped) = Sum(issued)
          /\ (\A p \in Producers : issued[p] = MaxPush) => Len(popped) = 2 * MaxPush

\* Both handles pushed MaxPush messages, all are popped and a try_pop on
\* the drained queue has returned None.
C9_Witness ==
    /\ \A p \in Producers : issued[p] = MaxPush
    /\ NoPush /\ NoPop /\ Len(popped) = 2 * MaxPush
    /\ ret["rx"].op = "try_pop" /\ ret["rx"].msg = None

\* C10: with one consumer and producers pushing concurrently, the messages
\* of each producer are popped in the order that producer pushed them:
\* for each producer, its messages popped, then the one the consumer holds,
\* then those queued, then the one it is pushing, are its pushes in call
\* order.  Messages of different producers come in any order.
C10_PerProducerOrder ==
    rx["rx2"] = None =>
        \A p \in Producers :
            From(popped \o local["rx"] \o Queue \o local[p], p) = PushOrder(p)

\* tx2's first message was popped between tx's first and second.
C10_Witness ==
    /\ rx["rx2"] = None
    /\ popped = <<Msg("tx", 1), Msg("tx2", 1), Msg("tx", 2)>>

----------------------------------------------------------------------------
\* worker/mod.rs: the Backpressure middleware in front of the handler, and
\* errors.rs: the conversion of its error into the response.

\* The Box<queue::IsFull> entries of to_check, and the request thread.
Boxes == {"b1", "b2"}
Requests == {"req"}

\* Iron calls before and the handler by &self from each of its request
\* threads: a thread has its own call in progress on the one boxed producer.
\* The first thread's calls are kept under the name of the box, those of
\* another thread under b2, which then holds the same two Arcs.
Via(r, b) == IF r = "req" THEN b ELSE "b2"

\* The status codes of errors.rs, of the handler of main.rs, and the one the
\* documentation of Backpressure promises.
NotFound == 404
InternalServerError == 500
StatusOk == 200
ServiceUnavailable == 503

NoReq == [pc |-> "idle", i |-> 0, answers |-> <<>>, epoch |-> None,
          result |-> "none", status |-> None]

\* Backpressure::new: to_check: vec![]
Backpressure_new == <<>>

\* self.to_check.push(Box::new(q))
add_queue(self, q) == Append(self, q)

\* impl From<Error> for IronError: the status of the response for an error.
IronError_from(kind) ==
    IF kind = "PersonNotFound" THEN NotFound ELSE InternalServerError

\* Grows with every push call and every message try_pop returns: equal at two
\* instants with no call in progress, no counter has changed in between.
Epoch == Sum(issued) + Len(popped)

\* The state after QueueBuilder and Backpressure::new, before any build.
InitGate ==
    /\ segq = <<>>
    /\ rwlock = <<>>
    /\ tx = [p \in Producers \cup Boxes |-> None]
    /\ rx = [c \in Consumers |-> None]
    /\ pc = [h \in Handles \cup Boxes |-> "idle"]
    /\ local = [h \in Handles \cup Boxes |-> None]
    /\ ret = [h \in Handles \cup Boxes |-> NoRet]
    /\ issued = [p \in Producers |-> 0]
    /\ popped = <<>>
    /\ to_check = Backpressure_new
    /\ linked = FALSE
    /\ req = [r \in Requests |-> NoReq]
    /\ wk = [pc |-> "none"]
    /\ ctx = <<>>
    /\ units = {}
    /\ NoMore

\* let (p, c) = b.build();  the second pair is built after the first.
Build(p, c, b) ==
    /\ tx[p] = None /\ rx[c] = None
    /\ p = "tx2" => tx["tx"] # None
    /\ LET q == build(b, segq, rwlock) IN
        /\ segq' = q.segq
        /\ rwlock' = q.rwlock
        /\ tx' = [tx EXCEPT ![p] = Some(q.tx)]
        /\ rx' = [rx EXCEPT ![c] = Some(q.rx)]
    /\ UNCHANGED <<pc, local, ret, issued, popped>>
    /\ UNCHANGED env
    /\ UNCHANGED more

\* backpressure.add_queue(from.clone()), while the gate is being built.
AddQueue(from) ==
    LET b == IF tx["b1"] = None THEN "b1" ELSE "b2" IN
    /\ ~linked /\ tx[b] = None
    /\ tx[from] # None /\ pc[from] = "idle"
    /\ tx' = [tx EXCEPT ![b] = Some(Producer_clone(tx[from][1]))]
    /\ to_check' = add_queue(to_check, b)
    /\ UNCHANGED <<segq, rwlock, rx, pc, local, ret, issued, popped>>
    /\ UNCHANGED <<linked, req, wk, ctx, units>>
    /\ UNCHANGED more

\* chain.link_before(backpressure): the gate is moved into the chain.
LinkBefore ==
    /\ ~linked
    /\ linked' = TRUE
    /\ UNCHANGED <<segq, rwlock, tx, rx, pc, local, ret, issued, popped>>
    /\ UNCHANGED <<to_check, req, wk, ctx, units>>
    /\ UNCHANGED more

\* Faulty variant: the iteration starts at the last box.
Before_last(r) ==
    /\ linked /\ req[r].pc \in {"idle", "done"}
    /\ req' = [req EXCEPT ![r] =
                  [NoReq EXCEPT !.pc = "any", !.i = IF to_check = <<>> THEN 1 ELSE Len(to_check),
                                !.epoch = IF NoPush /\ NoPop THEN Some(Epoch) ELSE None]]
    /\ UNCHANGED <<segq, rwlock, tx, rx, pc, local, ret, issued, popped>>
    /\ UNCHANGED <<to_check, linked, wk, ctx, units>>
    /\ UNCHANGED more

\* A request comes in: before calls check, which starts to_check.iter().any(..).
Before(r) ==
    /\ linked /\ req[r].pc \in {"idle", "done"}
    /\ req' = [req EXCEPT ![r] =
                  [NoReq EXCEPT !.pc = "any", !.i = 1,
                                !.epoch = IF NoPush /\ NoPop THEN Some(Epoch) ELSE None]]
    /\ UNCHANGED <<segq, rwlock, tx, rx, pc, local, ret, issued, popped>>
    /\ UNCHANGED <<to_check, linked, wk, ctx, units>>
    /\ UNCHANGED more

\* any calls q.is_full() on the next box.
AnyCall(r) ==
    /\ req[r].pc = "any" /\ req[r].i <= Len(to_check)
    /\ ret[Via(r, to_check[req[r].i])].op # "is_full"
    /\ IsFull(Via(r, to_check[req[r].i]))

\* Faulty variant: any goes on after a box that is full.
AnyReturn_all(r) ==
    LET b == Via(r, to_check[req[r].i]) IN
    /\ req[r].pc = "any" /\ req[r].i <= Len(to_check)
    /\ pc[b] = "idle" /\ ret[b].op = "is_full"
    /\ ret' = [ret EXCEPT ![b] = NoRet]
    /\ req' = [req EXCEPT ![r].answers = Append(@, ret[b].full), ![r].i = @ + 1]
    /\ UNCHANGED <<segq, rwlock, tx, rx, pc, local, issued, popped>>
    /\ UNCHANGED <<to_check, linked, wk, ctx, units>>
    /\ UNCHANGED more

\* Faulty variant: only the first box is asked.
AnyReturn_first(r) ==
    LET b == Via(r, to_check[req[r].i]) IN
    /\ req[r].pc = "any" /\ req[r].i <= Len(to_check)
    /\ pc[b] = "idle" /\ ret[b].op = "is_full"
    /\ ret' = [ret EXCEPT ![b] = NoRet]
    /\ req' = [req EXCEPT ![r].answers = Append(@, ret[b].full),
                          ![r].i = IF ret[b].full THEN @ ELSE Len(to_check) + 1,
                          ![r].pc = IF ret[b].full THEN "checked" ELSE @,
                          ![r].epoch = IF ret[b].full THEN None ELSE @,
                          ![r].result = IF ret[b].full THEN "QueueIsFull" ELSE @]
    /\ UNCHANGED <<segq, rwlock, tx, rx, pc, local, issued, popped>>
    /\ UNCHANGED <<to_check, linked, wk, ctx, units>>
    /\ UNCHANGED more

\* q.is_full() has returned: any stops at the first true, check returns
\* Err(QueueIsFull); on false it goes on with the next box.
AnyReturn(r) ==
    LET b == Via(r, to_check[req[r].i]) IN
    /\ req[r].pc = "any" /\ req[r].i <= Len(to_check)
    /\ pc[b] = "idle" /\ ret[b].op = "is_full"
    /\ ret' = [ret EXCEPT ![b] = NoRet]
    /\ req' = [req EXCEPT ![r].answers = Append(@, ret[b].full),
                          ![r].i = IF ret[b].full THEN @ ELSE @ + 1,
                          ![r].pc = IF ret[b].full THEN "checked" ELSE @,
                          ![r].epoch = IF ret[b].full THEN None ELSE @,
                          ![r].result = IF ret[b].full THEN "QueueIsFull" ELSE @]
    /\ UNCHANGED <<segq, rwlock, tx, rx, pc, local, issued, popped>>
    /\ UNCHANGED <<to_check, linked, wk, ctx, units>>
    /\ UNCHANGED more

\* The iterator is exhausted: any is false, check returns Ok(()).
AnyDone(r) ==
    /\ req[r].pc = "any" /\ req[r].i > Len(to_check)
    /\ req' = [req EXCEPT ![r].pc = "checked", ![r].epoch = None, ![r].result = "Ok"]
    /\ UNCHANGED <<segq, rwlock, tx, rx, pc, local, ret, issued, popped>>
    /\ UNCHANGED <<to_check, linked, wk, ctx, units>>
    /\ UNCHANGED more

\* Faulty variant: the result of check is ignored, the handler always runs.
BeforeReturn_admit(r) ==
    /\ req[r].pc = "checked"
    /\ req' = [req EXCEPT ![r].pc = "handler", ![r].answers = <<>>, ![r].status = None]
    /\ UNCHANGED <<segq, rwlock, tx, rx, pc, local, ret, issued, popped>>
    /\ UNCHANGED <<to_check, linked, wk, ctx, units>>
    /\ UNCHANGED more

\* before returns self.check().map_err(|e| e.into()): on Err the chain stops
\* and the IronError is the response; on Ok the handler is next.
BeforeReturn(r) ==
    /\ req[r].pc = "checked"
    /\ req' = [req EXCEPT ![r].pc = IF req[r].result = "Ok" THEN "handler" ELSE "done",
                          ![r].answers = <<>>,
                          ![r].status = IF req[r].result = "Ok" THEN None
                                        ELSE Some(IronError_from(req[r].result))]
    /\ UNCHANGED <<segq, rwlock, tx, rx, pc, local, ret, issued, popped>>
    /\ UNCHANGED <<to_check, linked, wk, ctx, units>>
    /\ UNCHANGED more

\* The handler runs and answers Response::with((status::Ok, msg)).
Handler(r) ==
    /\ req[r].pc = "handler"
    /\ req' = [req EXCEPT ![r].pc = "done", ![r].status = Some(StatusOk)]
    /\ UNCHANGED <<segq, rwlock, tx, rx, pc, local, ret, issued, popped>>
    /\ UNCHANGED <<to_check, linked, wk, ctx, units>>
    /\ UNCHANGED more

\* Two queues behind one gate; the traffic is on the first (tx, rx), the
\* second stays as it was built.
NextGate ==
    \/ \E b \in Builders : Build("tx", "rx", b)
    \/ \E b \in Builders : Build("tx2", "rx2", b)
    \/ \E p \in Producers : AddQueue(p)
    \/ LinkBefore
    \/ Push("tx")
    \/ PushLock("tx")
    \/ PushInc("tx")
    \/ PushAppend("tx")
    \/ TryPop("rx")
    \/ TryPopSegq("rx")
    \/ TryPopLock("rx")
    \/ TryPopDec("rx")
    \/ \E r \in Requests : Before(r)
    \/ \E r \in Requests : AnyCall(r)
    \/ \E b \in Boxes : IsFullLock(b)
    \/ \E b \in Boxes : IsFullRead(b)
    \/ \E r \in Requests : AnyReturn(r)
    \/ \E r \in Requests : AnyDone(r)
    \/ \E r \in Requests : BeforeReturn(r)
    \/ \E r \in Requests : Handler(r)

SpecGate == InitGate /\ [][NextGate]_vars

----------------------------------------------------------------------------
\* Vocabulary of the gate's properties.

\* the counter behind handle h is at or above its max_len right now
FullNow(h) ==
    /\ tx[h][1].len_ctr # None
    /\ rwlock[tx[h][1].len_ctr[1].len].data >= tx[h][1].len_ctr[1].max_len

\* the step on which check returns to before
CheckReturns(r) == req[r].pc = "any" /\ req'[r].pc = "checked"

\* no push or pop was in progress when the check that now returns started,
\* none is now, and none was started or completed in between
Calm(r) == req[r].epoch = Some(Epoch) /\ NoPush /\ NoPop

\* C11: when check has returned, it returned QueueIsFull iff one of the
\* is_full calls it made on its registered producers answered true, and Ok
\* only after every registered producer answered false; with no producer
\* registered it returned Ok.
C11_CheckAny ==
    \A r \in Requests :
        req[r].pc = "checked" =>
            /\ (req[r].result = "QueueIsFull") = (TRUE \in Range(req[r].answers))
            /\ (req[r].result = "Ok") = (req[r].answers = [k \in 1..Len(to_check) |-> FALSE])
            /\ to_check = <<>> => req[r].result = "Ok"

\* Two queues registered: the first answered false, the second true, and
\* check returned QueueIsFull.
C11_Witness ==
    /\ Len(to_check) = 2
    /\ req["req"].pc = "checked"
    /\ req["req"].answers = <<FALSE, TRUE>>
    /\ req["req"].result = "QueueIsFull"

\* C12: a check during which no queue operation ran returns QueueIsFull iff
\* some member of the set of registered producers is full, which does not
\* depend on the order of the add_queue calls: one full and one non-full
\* queue give QueueIsFull whichever was registered first.
C12_OrderFree ==
    [][\A r \in Requests :
          (CheckReturns(r) /\ Calm(r)) =>
              (req'[r].result = "QueueIsFull") = (\E b \in Range(to_check) : FullNow(b))]_vars

\* The second queue (full from its build, max_len = 0) was registered after
\* the first, which is not full, and the check returned QueueIsFull.
C12_Witness ==
    /\ Len(to_check) = 2 /\ tx["tx2"] # None
    /\ tx["b1"][1].queue = tx["tx"][1].queue /\ ~FullNow("b1")
    /\ tx["b2"][1].queue = tx["tx2"][1].queue /\ FullNow("b2")
    /\ NoPush /\ NoPop /\ Epoch = 0
    /\ req["req"].pc = "checked" /\ req["req"].result = "QueueIsFull"

\* C14: when check fails the handler does not run for that request, and the
\* response made from the error before returns has status 503.
C14_Rejected503 ==
    \A r \in Requests :
        req[r].result = "QueueIsFull" =>
            /\ req[r].pc # "handler"
            /\ req[r].pc = "done" => req[r].status = Some(ServiceUnavailable)

\* The request was rejected by the gate, with status 500.
C14_Witness ==
    /\ req["req"].pc = "done" /\ req["req"].result = "QueueIsFull"
    /\ req["req"].status = Some(InternalServerError)
    /\ FullNow("b1")

\* the two pairs build returns in the gate's scenario
Pairs == {<<"tx", "rx">>, <<"tx2", "rx2">>}

\* no push was ever called on the queue behind handle h
Fresh(h) == \A p \in Producers : (tx[p] # None /\ tx[p][1].queue = tx[h][1].queue) => issued[p] = 0

\* C19: a build step returns a pair on a new, empty queue whose counter, if
\* it has one, is new and 0, and leaves every other queue and counter as it
\* was; a handle never changes afterwards (so neither does its max_len);
\* on a queue nothing was pushed to, is_full answers true iff it was built
\* with max_len = 0 and try_pop returns None; the queues of two build calls
\* are different queues with different counters.
C19_Build ==
    [][/\ \A pr \in Pairs :
            (tx[pr[1]] = None /\ tx'[pr[1]] # None) =>
                LET p == tx'[pr[1]][1] IN
                /\ rx'[pr[2]] # None /\ rx'[pr[2]][1].queue = p.queue
                /\ p.queue \notin DOMAIN segq /\ segq'[p.queue] = <<>>
                /\ \A q \in DOMAIN segq : segq'[q] = segq[q]
                /\ \A l \in DOMAIN rwlock : rwlock'[l] = rwlock[l]
                /\ p.len_ctr # None =>
                      /\ p.len_ctr[1].len \notin DOMAIN rwlock
                      /\ rwlock'[p.len_ctr[1].len].data = 0
                      /\ rx'[pr[2]][1].len = Some(p.len_ctr[1].len)
       /\ \A p \in Producers : tx[p] # None => tx'[p] = tx[p]
       /\ \A b \in Boxes :
            (IsFullReturns(b) /\ Fresh(b)) =>
                ret'[b].full = (tx[b][1].len_ctr # None /\ tx[b][1].len_ctr[1].max_len = 0)
       /\ (TryPopReturns("rx") /\ Fresh("tx")) => ret'["rx"].msg = None
       /\ (tx'["tx"] # None /\ tx'["tx2"] # None) =>
            /\ tx'["tx"][1].queue # tx'["tx2"][1].queue
            /\ (tx'["tx"][1].len_ctr # None /\ tx'["tx2"][1].len_ctr # None) =>
                  tx'["tx"][1].len_ctr[1].len # tx'["tx2"][1].len_ctr[1].len]_vars

\* Two queues with max_len, the second built after both pushes on the first:
\* the first holds a message and counts 1, the second is empty and counts 0.
C19_Witness ==
    /\ tx["tx"] # None /\ tx["tx2"] # None
    /\ Len(rwlock) = 2
    /\ issued["tx"] = 2 /\ Len(popped) = 1
    /\ segq[tx["tx"][1].queue] = <<Msg("tx", 2)>> /\ rwlock[1].data = 1
    /\ segq[tx["tx2"][1].queue] = <<>> /\ rwlock[2].data = 0

\* a step of an is_full call on box b, of the check made for request r
IsFullStep(b) == pc'[b] # pc[b] \/ ret'[b] # ret[b]
CheckStep(r) == req[r].pc \in {"idle", "done", "any"} /\ req'[r] # req[r]

\* C20: no step of is_full and no step of check changes the content of a
\* queue, the value of a counter or the gate's list.
C20_ReadOnly ==
    [][((\E b \in Boxes : IsFullStep(b)) \/ (\E r \in Requests : CheckStep(r))) =>
          /\ segq' = segq
          /\ DOMAIN rwlock' = DOMAIN rwlock
          /\ \A l \in DOMAIN rwlock : rwlock'[l].data = rwlock[l].data
          /\ to_check' = to_check]_vars

\* A check has run to its end on one queue holding two messages with
\* max_len = 0, and all of it is still there.
C20_Witness ==
    /\ Len(to_check) = 1 /\ tx["tx"] # None /\ FullNow("b1")
    /\ req["req"].pc = "checked" /\ req["req"].result = "QueueIsFull"
    /\ Len(segq[tx["tx"][1].queue]) = 2 /\ rwlock[1].data = 2

----------------------------------------------------------------------------
\* worker/unit.rs: Worker::spawn(rx, ctx, unit), as main.rs sets it up: one
\* queue, its consumer moved into the worker thread, a clone of its producer
\* boxed in the gate, the gate linked, the other producer pushing.

\* The ctx handed to spawn.
Seed == Msg("seed", 0)

\* The unit function of the scenario, a FnMut(&mut C, M): it records msg.
unit(c, msg) == Append(c, msg)

InitWorker ==
    \E b \in Builders :
        LET q == build(b, <<>>, <<>>) IN
        /\ segq = q.segq
        /\ rwlock = q.rwlock
        /\ tx = [p \in {"tx", "tx2", "b1"} |->
                    IF p = "tx" THEN Some(q.tx)
                    ELSE IF p = "b1" THEN Some(Producer_clone(q.tx)) ELSE None]
        /\ rx = [c \in Consumers |-> IF c = "rx" THEN Some(q.rx) ELSE None]
        /\ pc = [h \in Handles \cup {"b1"} |-> "idle"]
        /\ local = [h \in Handles \cup {"b1"} |-> None]
        /\ ret = [h \in Handles \cup {"b1"} |-> NoRet]
        /\ issued = [p \in Producers |-> 0]
        /\ popped = <<>>
        /\ to_check = add_queue(Backpressure_new, "b1")
        /\ linked = TRUE
        /\ req = [r \in Requests |-> NoReq]
        /\ wk = [pc |-> "loop"]
        /\ ctx = <<Seed>>
        /\ units = {}
        /\ NoMore

\* Faulty variant: the queue is still polled after the worker thread died.
WorkerTryPop_undead ==
    /\ wk.pc \in {"loop", "dead"} /\ ret["rx"].op # "try_pop"
    /\ TryPop("rx")

\* loop { .. rx.try_pop() .. }: the call.
WorkerTryPop ==
    /\ wk.pc = "loop" /\ ret["rx"].op # "try_pop"
    /\ TryPop("rx")

\* Faulty variant: the loop ends when the queue is found empty.
WorkerNone_exit ==
    /\ wk.pc = "loop" /\ pc["rx"] = "idle"
    /\ ret["rx"].op = "try_pop" /\ ret["rx"].msg = None
    /\ ret' = [ret EXCEPT !["rx"] = NoRet]
    /\ wk' = [wk EXCEPT !.pc = "finished"]
    /\ UNCHANGED <<segq, rwlock, tx, rx, pc, local, issued, popped>>
    /\ UNCHANGED <<to_check, linked, req, ctx, units>>
    /\ UNCHANGED more

\* try_pop returned None: the if let does not match, the loop goes round.
WorkerNone ==
    /\ wk.pc = "loop" /\ pc["rx"] = "idle"
    /\ ret["rx"].op = "try_pop" /\ ret["rx"].msg = None
    /\ ret' = [ret EXCEPT !["rx"] = NoRet]
    /\ UNCHANGED <<segq, rwlock, tx, rx, pc, local, issued, popped>>
    /\ UNCHANGED env
    /\ UNCHANGED more

\* Faulty variant: the message is dropped, unit is not called.
WorkerUnitCall_drop ==
    /\ wk.pc = "loop" /\ pc["rx"] = "idle"
    /\ ret["rx"].op = "try_pop" /\ ret["rx"].msg # None
    /\ ret' = [ret EXCEPT !["rx"] = NoRet]
    /\ UNCHANGED <<segq, rwlock, tx, rx, pc, local, issued, popped>>
    /\ UNCHANGED env
    /\ UNCHANGED more

\* Faulty variant: unit is started on a thread of its own, the loop goes on.
WorkerUnitCall_detach ==
    /\ wk.pc = "loop" /\ pc["rx"] = "idle"
    /\ ret["rx"].op = "try_pop" /\ ret["rx"].msg # None
    /\ units' = units \cup {[msg |-> ret["rx"].msg[1], saw |-> ctx]}
    /\ ret' = [ret EXCEPT !["rx"] = NoRet]
    /\ UNCHANGED <<segq, rwlock, tx, rx, pc, local, issued, popped>>
    /\ UNCHANGED <<to_check, linked, req, wk, ctx>>
    /\ UNCHANGED more

\* try_pop returned Some(msg): unit(&mut ctx, msg) is called on this thread.
WorkerUnitCall ==
    /\ wk.pc = "loop" /\ pc["rx"] = "idle"
    /\ ret["rx"].op = "try_pop" /\ ret["rx"].msg # None
    /\ units' = units \cup {[msg |-> ret["rx"].msg[1], saw |-> ctx]}
    /\ wk' = [wk EXCEPT !.pc = "unit"]
    /\ ret' = [ret EXCEPT !["rx"] = NoRet]
    /\ UNCHANGED <<segq, rwlock, tx, rx, pc, local, issued, popped>>
    /\ UNCHANGED <<to_check, linked, req, ctx>>
    /\ UNCHANGED more

\* unit returns, having changed ctx; the loop goes round.
WorkerUnitReturn ==
    /\ wk.pc = "unit"
    /\ \E u \in units :
        /\ ctx' = unit(ctx, u.msg)
        /\ units' = units \ {u}
    /\ wk' = [wk EXCEPT !.pc = "loop"]
    /\ UNCHANGED <<segq, rwlock, tx, rx, pc, local, ret, issued, popped>>
    /\ UNCHANGED <<to_check, linked, req>>
    /\ UNCHANGED more

\* unit panics: the thread unwinds and is gone; nothing restarts it.
WorkerPanic ==
    /\ wk.pc = "unit"
    /\ wk' = [wk EXCEPT !.pc = "dead"]
    /\ units' = {}
    /\ UNCHANGED <<segq, rwlock, tx, rx, pc, local, ret, issued, popped>>
    /\ UNCHANGED <<to_check, linked, req, ctx>>
    /\ UNCHANGED more

\* The steps of the worker thread, the steps that complete a push, and the
\* steps that complete a check.
WorkerStep ==
    \/ WorkerTryPop
    \/ TryPopSegq("rx")
    \/ TryPopLock("rx")
    \/ TryPopDec("rx")
    \/ WorkerNone
    \/ WorkerUnitCall
    \/ WorkerUnitReturn

PushStep == PushLock("tx") \/ PushInc("tx") \/ PushAppend("tx")

CheckSteps ==
    \/ \E r \in Requests : AnyCall(r)
    \/ IsFullLock("b1")
    \/ IsFullRead("b1")
    \/ \E r \in Requests : AnyReturn(r)
    \/ \E r \in Requests : AnyDone(r)

NextWorker ==
    \/ Push("tx")
    \/ PushStep
    \/ WorkerStep
    \/ WorkerPanic
    \/ \E r \in Requests : Before(r)
    \/ CheckSteps
    \/ \E r \in Requests : BeforeReturn(r)
    \/ \E r \in Requests : Handler(r)

SpecWorker == InitWorker /\ [][NextWorker]_vars

\* Fair scheduling: a thread that can take a step is not left waiting for
\* ever, be it the worker in its loop, a producer inside push or a request
\* inside check; and a thread waiting for the counter lock gets it if the
\* lock is free again and again.  Nothing obliges a push or a request to
\* start, or the unit function to panic.
FairWorker ==
    /\ SpecWorker
    /\ WF_vars(WorkerStep) /\ SF_vars(TryPopLock("rx"))
    /\ WF_vars(PushStep) /\ SF_vars(PushLock("tx"))
    /\ WF_vars(CheckSteps) /\ SF_vars(IsFullLock("b1"))

----------------------------------------------------------------------------
\* Vocabulary of the worker's properties.

Dead == wk.pc = "dead"

\* the counter is at or above max_len and the worker is gone
Stuck == Dead /\ Monitored /\ Counter >= MaxLenOf

\* Stuck, with no is_full and no check in progress or unread
Settled ==
    /\ Stuck
    /\ pc["b1"] = "idle" /\ ret["b1"] = NoRet
    /\ \A r \in Requests : req[r].pc \in {"idle", "done"}

\* C13: with the single producer tx and a worker on the consumer, the
\* context is at every moment the seed followed by the first messages pushed,
\* in push order, each once; and under fair scheduling, unless unit panics,
\* every message whose push was called ends up in it: after pushes of m1, m2
\* the context ends as seed, m1, m2.
C13_EachOnceInOrder ==
    /\ [](\E k \in 0..issued["tx"] : ctx = <<Seed>> \o SubSeq(PushOrder("tx"), 1, k))
    /\ \A n \in 1..MaxPush :
          (issued["tx"] >= n) ~> (Dead \/ Len(ctx) >= n + 1)

\* Both messages pushed and processed: the context is seed, m1, m2.
C13_Witness ==
    /\ ~Dead /\ issued["tx"] = 2
    /\ ctx = <<Seed, Msg("tx", 1), Msg("tx", 2)>>
    /\ Queue = <<>> /\ units = {}

\* C15: once the worker thread has died in unit it stays dead: no invocation
\* of unit ever starts, the context is not touched, no message leaves the
\* queue and the counter never decreases; an is_full that answers true then
\* has read a counter at or above max_len, and from a moment the counter is
\* there, every is_full answers true and every check returns QueueIsFull.
C15_DeadWorker ==
    /\ [][Dead =>
            /\ Dead' /\ units' = {} /\ ctx' = ctx
            /\ Len(Queue') >= Len(Queue) /\ popped' = popped
            /\ Monitored => Counter' >= Counter
            /\ (IsFullReturns("b1") /\ ret'["b1"].full) => Stuck']_vars
    /\ [](Settled =>
            [](/\ Stuck
               /\ ret["b1"].op = "is_full" => ret["b1"].full
               /\ \A r \in Requests :
                    req[r].pc = "checked" => req[r].result = "QueueIsFull"))

\* The worker died on the first message, the second is queued on a queue
\* with max_len = 1, and the request made since was rejected.
C15_Witness ==
    /\ Dead /\ Monitored /\ MaxLenOf = 1
    /\ Queue = <<Msg("tx", 2)>> /\ Counter = 1
    /\ ctx = <<Seed>>
    /\ req["req"].pc = "done" /\ req["req"].result = "QueueIsFull"

\* C16: the counter lock is held by a handle only between taking it and the
\* single read, increment or decrement that follows, never while the handle
\* appends to or pops from the transport; a queue built without max length
\* has no lock; and under fair scheduling every push, try_pop, is_full and
\* check that has started completes.
C16_NoBlocking ==
    /\ [](\A l \in DOMAIN rwlock :
            /\ \A h \in rwlock[l].writer : pc[h] \in {"push_inc", "pop_dec"}
            /\ \A h \in rwlock[l].readers : pc[h] = "full_read")
    /\ [](~Monitored => rwlock = <<>>)
    /\ Pushing("tx") ~> ~Pushing("tx")
    /\ Popping("rx") ~> ~Popping("rx")
    /\ (pc["b1"] # "idle") ~> (pc["b1"] = "idle")
    /\ \A r \in Requests : (req[r].pc = "any") ~> (req[r].pc = "checked")

\* The producer holds the write lock for its increment while the worker's
\* try_pop and the gate's is_full wait for it.
C16_Witness ==
    /\ Monitored /\ rwlock[1].writer = {"tx"}
    /\ pc["tx"] = "push_inc" /\ pc["rx"] = "pop_lock" /\ pc["b1"] = "full_lock"
    /\ \A r \in Requests : req[r].pc = "any"

\* C18 as stated: on a monitored queue a state comes in which the counter is
\* below the number of queued messages, and one in which it is above.
C18_AsStated ==
    /\ <>(Monitored => Counter < Len(Queue))
    /\ <>(Monitored => Counter > Len(Queue))

\* C18: on a monitored queue the counter is never below the number of
\* queued messages; it differs from it only upwards, between the increment
\* of a push and its append, and between the removal of a message by
\* try_pop and its decrement.
C18_NeverBelow ==
    Monitored =>
        /\ Counter >= Len(Queue)
        /\ Counter = Len(Queue)
              + (IF pc["tx"] = "push_append" THEN 1 ELSE 0)
              + (IF pc["rx"] \in {"pop_lock", "pop_dec"} THEN 1 ELSE 0)

\* The increment of the second push is done, its append is not: the counter
\* is 2 with one message queued.
C18_Witness ==
    /\ Monitored /\ pc["tx"] = "push_append" /\ pc["rx"] = "idle"
    /\ Counter = 2 /\ Len(Queue) = 1

\* C17: at most one invocation of unit is in progress, and only while the
\* worker thread is inside unit; the context changes only when that
\* invocation returns, so each invocation starts on the context the previous
\* one left and nothing touches it in between.
C17_OneUnit ==
    [][/\ Cardinality(units') <= 1
       /\ units' # {} => wk'.pc = "unit"
       /\ \A u \in units' : u.saw = ctx'
       /\ ctx' # ctx =>
            /\ wk.pc = "unit" /\ units' = {}
            /\ \E u \in units : ctx' = unit(u.saw, u.msg)]_vars

\* The second invocation is in progress on the context the first one left.
C17_Witness ==
    /\ wk.pc = "unit"
    /\ units = {[msg |-> Msg("tx", 2), saw |-> <<Seed, Msg("tx", 1)>>]}
    /\ ctx = <<Seed, Msg("tx", 1)>>

\* C21: the worker thread is in its loop or inside unit until a panic in
\* unit kills it, and never in a finished state; a try_pop of the worker
\* that returns None starts no invocation of unit and leaves the context as
\* it is; and under fair scheduling the worker, unless dead, polls the queue
\* again and again for ever.
C21_NeverEnds ==
    /\ [](wk.pc \in {"loop", "unit", "dead"})
    /\ [][wk'.pc = "dead" => wk.pc \in {"unit", "dead"}]_vars
    /\ [][(ret["rx"].msg = None /\ (TryPopReturns("rx") \/ ret["rx"].op = "try_pop")) =>
            (ctx' = ctx /\ units = {} /\ units' = {} /\ wk'.pc = "loop")]_vars
    /\ []<>(Dead \/ pc["rx"] = "pop_segq")

\* Both messages are processed and the worker has polled the empty queue
\* once more.
C21_Witness ==
    /\ wk.pc = "loop" /\ ctx = <<Seed, Msg("tx", 1), Msg("tx", 2)>>
    /\ Queue = <<>> /\ pc["rx"] = "idle"
    /\ ret["rx"].op = "try_pop" /\ ret["rx"].msg = None

----------------------------------------------------------------------------
\* model.rs: Id, Person and their (de)serialisation.  A String is a sequence
\* of characters; the JSON text {"id":<lit>,"name":<lit>} is kept as the
\* bodies of its two string literals, escaped as serde_json writes them.

\* Longest string tried.
MaxStr == 2

Quote == "\""
Backslash == "\\"
Chars == {"a", Quote, Backslash}

RECURSIVE Strings(_)
Strings(n) ==
    IF n = 0 THEN {<<>>}
    ELSE Strings(n - 1) \cup {Append(t, c) : t \in Strings(n - 1), c \in Chars}

Ok(v) == [ok |-> TRUE, val |-> v, err |-> "none"]
Err(e) == [ok |-> FALSE, val |-> <<>>, err |-> e]

\* Faulty variant: the empty string is accepted.
Id_try_from_any(id) == Ok([value |-> id])

\* match id { "" => Err(ErrorKind::NotAnId.into()), _ => Ok(Id(id.to_string())) }
Id_try_from(id) ==
    IF id = <<>> THEN Err("NotAnId") ELSE Ok([value |-> id])

\* &self.0
as_ref(self) == self.value

\* The body of the string literal serde_json writes for a string.
RECURSIVE escape(_)
escape(t) ==
    IF t = <<>> THEN <<>>
    ELSE (IF Head(t) \in {Quote, Backslash} THEN <<Backslash, Head(t)>> ELSE <<Head(t)>>)
         \o escape(Tail(t))

\* The string serde_json reads from the body of a string literal; a bare
\* quote, a lone backslash or an unknown escape is a syntax error.
RECURSIVE unescape(_)
unescape(t) ==
    IF t = <<>> THEN Ok(<<>>)
    ELSE IF Head(t) = Quote THEN Err("syntax")
    ELSE IF Head(t) = Backslash
         THEN IF Len(t) < 2 \/ t[2] \notin {Quote, Backslash} THEN Err("syntax")
              ELSE LET r == unescape(SubSeq(t, 3, Len(t))) IN
                   IF r.ok THEN Ok(<<t[2]>> \o r.val) ELSE r
    ELSE LET r == unescape(Tail(t)) IN
         IF r.ok THEN Ok(<<Head(t)>> \o r.val) ELSE r

\* serde_json::to_string(&person), with the derived Serialize of Person and Id.
to_string(person) ==
    [id |-> escape(as_ref(person.id)), name |-> escape(person.name)]

\* Deserialize for Id: visit_str does value.try_into().map_err(E::custom(..)).
Id_deserialize(lit) ==
    LET v == unescape(lit) IN
    IF ~v.ok THEN v
    ELSE LET r == Id_try_from(v.val) IN
         IF r.ok THEN r ELSE Err("Failed to parse id")

\* serde_json::from_str::<Person>(..), with the derived Deserialize of Person.
from_str(doc) ==
    LET i == Id_deserialize(doc.id)
        n == unescape(doc.name)
    IN  IF ~i.ok THEN i
        ELSE IF ~n.ok THEN n
        ELSE Ok([id |-> i.val, name |-> n.val])

\* Two strings are given; nothing was made of them yet.
InitModel ==
    /\ segq = <<>> /\ rwlock = <<>> /\ tx = <<>> /\ rx = <<>>
    /\ pc = <<>> /\ local = <<>> /\ ret = <<>>
    /\ issued = [p \in Producers |-> 0] /\ popped = <<>>
    /\ to_check = <<>> /\ linked = FALSE /\ req = <<>>
    /\ wk = [pc |-> "none"] /\ ctx = <<>> /\ units = {}
    /\ oneshot = <<>> /\ host = <<>> /\ people = <<>>
    /\ \E id \in Strings(MaxStr), name \in Strings(MaxStr) :
        mdl = [s |-> id, name |-> name, id |-> None, ser |-> None, de |-> None, raw |-> None]

\* Id::try_from(s)
TryFrom ==
    /\ mdl.id = None
    /\ mdl' = [mdl EXCEPT !.id = Some(Id_try_from(mdl.s))]
    /\ UNCHANGED <<segq, rwlock, tx, rx, pc, local, ret, issued, popped, env, oneshot, web>>

\* serde_json::to_string(&Person { id, name }), for the id try_from made.
Serialise ==
    /\ mdl.id # None /\ mdl.id[1].ok /\ mdl.ser = None
    /\ mdl' = [mdl EXCEPT !.ser = Some(to_string([id |-> mdl.id[1].val, name |-> mdl.name]))]
    /\ UNCHANGED <<segq, rwlock, tx, rx, pc, local, ret, issued, popped, env, oneshot, web>>

\* serde_json::from_str of the text to_string returned.
Deserialise ==
    /\ mdl.ser # None /\ mdl.de = None
    /\ mdl' = [mdl EXCEPT !.de = Some(from_str(mdl.ser[1]))]
    /\ UNCHANGED <<segq, rwlock, tx, rx, pc, local, ret, issued, popped, env, oneshot, web>>

\* serde_json::from_str of a text written by hand, the two strings being
\* the bodies of its literals.
DeserialiseRaw ==
    /\ mdl.raw = None
    /\ mdl' = [mdl EXCEPT !.raw = Some(from_str([id |-> mdl.s, name |-> mdl.name]))]
    /\ UNCHANGED <<segq, rwlock, tx, rx, pc, local, ret, issued, popped, env, oneshot, web>>

NextModel == TryFrom \/ Serialise \/ Deserialise \/ DeserialiseRaw

SpecModel == InitModel /\ [][NextModel]_vars

\* C22: try_from fails, with NotAnId, iff its argument is the empty string,
\* and otherwise makes an Id whose as_ref is the argument; deserialising a
\* Person whose id literal is empty fails; and deserialising what a valid
\* Person was serialised to gives that Person again.
C22_IdAndPerson ==
    /\ mdl.id # None =>
          /\ ~mdl.id[1].ok = (mdl.s = <<>>)
          /\ ~mdl.id[1].ok => mdl.id[1].err = "NotAnId"
          /\ mdl.id[1].ok => as_ref(mdl.id[1].val) = mdl.s
    /\ (mdl.raw # None /\ mdl.s = <<>>) => ~mdl.raw[1].ok
    /\ mdl.de # None => mdl.de[1] = Ok([id |-> mdl.id[1].val, name |-> mdl.name])

\* A Person whose id is a quote and whose name is a backslash and an a went
\* through to_string and from_str and came back.
C22_Witness ==
    /\ mdl.s = <<Quote>> /\ mdl.name = <<Backslash, "a">>
    /\ mdl.ser = Some([id |-> <<Backslash, Quote>>, name |-> <<Backslash, Backslash, "a">>])
    /\ mdl.de # None /\ mdl.de[1].ok /\ as_ref(mdl.de[1].val.id) = <<Quote>>

----------------------------------------------------------------------------
\* The counter against the transport, with two producers and two consumers.

\* the try_pop calls that have removed a message and not yet decremented
Undecremented == {c \in Consumers : pc[c] \in {"pop_lock", "pop_dec"}}

\* C23: on a monitored queue the counter is at least the number of messages
\* in the transport, in every reachable state; so when is_full, holding the
\* read lock, reads a counter below max_len and answers false, the transport
\* holds fewer than max_len messages.
C23_CounterCovers ==
    Monitored =>
        /\ Counter >= Len(Queue)
        /\ \A p \in Producers :
              (pc[p] = "full_read" /\ Counter < MaxLenOf) => Len(Queue) < MaxLenOf

\* After a push and a pop on a queue with max_len = 1, tx2 holds the read
\* lock and is about to answer false while tx has counted its second push
\* and not appended it yet.
C23_Witness ==
    /\ Monitored /\ MaxLenOf = 1 /\ Len(popped) = 1
    /\ pc["tx2"] = "full_read" /\ pc["tx"] = "push_lock"
    /\ Counter = 0 /\ Queue = <<>>

\* C24: whenever a try_pop is at its decrement, or waits for the lock to do
\* it, the counter is at least 1, and at least the number of such try_pops:
\* the decrement never goes below 0.
C24_NoUnderflow ==
    Undecremented # {} =>
        /\ Counter >= 1
        /\ Counter >= Cardinality(Undecremented)

\* Both consumers have removed a message; one is at its decrement, the other
\* waits for the lock, and the counter is 2.
C24_Witness ==
    /\ pc["rx"] = "pop_dec" /\ pc["rx2"] = "pop_lock"
    /\ Counter = 2 /\ Queue = <<>>

\* C25: on a monitored queue with no push and no try_pop in progress, the
\* counter is the number of messages in the transport, which is the number
\* of pushes made minus the number of messages popped.
C25_QuietExact ==
    (Monitored /\ NoPush /\ NoPop) =>
        /\ Counter = Len(Queue)
        /\ Len(Queue) = Pushes - Len(popped)

\* Three pushes over two producers, two pops, nothing in progress: the
\* counter is 1.
C25_Witness ==
    /\ Monitored /\ NoPush /\ NoPop
    /\ issued["tx"] = 2 /\ issued["tx2"] = 1 /\ Len(popped) = 2
    /\ Counter = 1 /\ Len(Queue) = 1

\* C29: with two consumers on one queue, no message is returned twice, and
\* never more messages are returned than were pushed; a try_pop that
\* returns while nothing else is in progress and more pushes were made than
\* messages returned so far, returns a message.
C29_MultiConsumer ==
    [][/\ \A i, j \in 1..Len(popped') : i # j => popped'[i] # popped'[j]
       /\ Len(popped') <= Sum(issued')
       /\ \A c \in Consumers :
            (TryPopReturns(c) /\ NoPush /\ Quiet(c) /\ Pushes > Len(popped)) =>
                ret'[c].msg # None]_vars

\* After two pushes each of the two consumers has returned one of the
\* messages.
C29_Witness ==
    /\ rx["rx2"] # None /\ issued["tx"] = 2 /\ Queue = <<>>
    /\ ret["rx"].msg = Some(Msg("tx", 2)) /\ ret["rx2"].msg = Some(Msg("tx", 1))

----------------------------------------------------------------------------
\* C30: check asks the boxes in registration order and stops at the first
\* that answers true: while it runs, the boxes before the current one have
\* all answered false; only the current box is inside is_full or holds a
\* read lock; and when it has returned QueueIsFull the last box asked is the
\* only one that answered true, the boxes after it were not asked.
C30_InOrder ==
    \A r \in Requests :
        /\ req[r].pc = "any" =>
              req[r].answers = [k \in 1..(req[r].i - 1) |-> FALSE]
        /\ (req[r].pc = "checked" /\ req[r].result = "QueueIsFull") =>
              req[r].answers = [k \in 1..req[r].i |-> k = req[r].i]
        /\ \A k \in 1..Len(to_check) :
              (pc[to_check[k]] # "idle" \/ ret[to_check[k]].op = "is_full") =>
                  (req[r].pc = "any" /\ req[r].i = k)
        /\ \A l \in DOMAIN rwlock : \A h \in rwlock[l].readers :
              req[r].pc = "any" /\ h = to_check[req[r].i]

\* Two full queues are registered; the check returned QueueIsFull on the
\* answer of the first and did not ask the second.
C30_Witness ==
    /\ Len(to_check) = 2 /\ FullNow("b1") /\ FullNow("b2")
    /\ tx["b1"][1].queue # tx["b2"][1].queue
    /\ req["req"].pc = "checked" /\ req["req"].result = "QueueIsFull"
    /\ req["req"].answers = <<TRUE>>
    /\ pc["b2"] = "idle" /\ ret["b2"] = NoRet

----------------------------------------------------------------------------
\* main.rs: the application.  One queue built with a watermark, its consumer
\* moved into the worker, a clone of its producer boxed in the gate, the
\* producer itself moved into the handler; Iron serves the chain from its
\* request threads.

\* The request threads of Iron.
Threads == {"req", "req2"}

\* with_max_len(500): the watermark, scaled down to just above the number
\* of request threads.
Watermark == 3

\* String::from("Hello World"), the context handed to spawn.
HelloWorld == "Hello World"

\* The handler closure owns tx and is called by &self from every thread:
\* the call a thread has in progress on it is kept under a name of its own.
TxOf(r) == IF r = "req" THEN "tx" ELSE "tx2"

\* The completion handle the request of r pushed last.
Handle(r) == Msg(TxOf(r), issued[TxOf(r)])

\* msg.complete(value): the value is sent to the waiting end, once.
complete(sent, msg, value) ==
    Append(sent, [msg |-> msg, value |-> value, taken |-> FALSE])

InitApp ==
    \E w \in 1..Watermark :
        LET q == build(with_max_len(QueueBuilder_new, w), <<>>, <<>>) IN
        /\ segq = q.segq
        /\ rwlock = q.rwlock
        /\ tx = [p \in Producers \cup Boxes |->
                    IF p \in Producers THEN Some(q.tx)
                    ELSE Some(Producer_clone(q.tx))]
        /\ rx = [c \in Consumers |-> IF c = "rx" THEN Some(q.rx) ELSE None]
        /\ pc = [h \in Handles \cup Boxes |-> "idle"]
        /\ local = [h \in Handles \cup Boxes |-> None]
        /\ ret = [h \in Handles \cup Boxes |-> NoRet]
        /\ issued = [p \in Producers |-> 0]
        /\ popped = <<>>
        /\ to_check = add_queue(Backpressure_new, "b1")
        /\ linked = TRUE
        /\ req = [r \in Threads |-> NoReq]
        /\ wk = [pc |-> "loop"]
        /\ ctx = HelloWorld
        /\ units = {}
        /\ oneshot = <<>>
        /\ mdl = <<>>
        /\ host = <<>>
        /\ people = <<>>

\* A request arrives on a thread that is free, and before is called.
Request(r) ==
    /\ issued[TxOf(r)] < MaxPush
    /\ Before(r)

\* let (c, p) = futures::oneshot(); tx.push(c);  the call.
HandlerPush(r) ==
    /\ req[r].pc = "handler"
    /\ ret[TxOf(r)].op # "push"
    /\ Push(TxOf(r))

\* push has returned: p.wait() blocks the thread.
HandlerWait(r) ==
    /\ req[r].pc = "handler"
    /\ pc[TxOf(r)] = "idle" /\ ret[TxOf(r)].op = "push"
    /\ ret' = [ret EXCEPT ![TxOf(r)] = NoRet]
    /\ req' = [req EXCEPT ![r].pc = "wait"]
    /\ UNCHANGED <<segq, rwlock, tx, rx, pc, local, issued, popped>>
    /\ UNCHANGED <<to_check, linked, wk, ctx, units>>
    /\ UNCHANGED more

\* Faulty variant: the handler answers without waiting for the worker.
HandlerReply_nowait(r) ==
    /\ req[r].pc = "wait"
    /\ req' = [req EXCEPT ![r].pc = "done", ![r].status = Some(StatusOk)]
    /\ UNCHANGED <<segq, rwlock, tx, rx, pc, local, ret, issued, popped>>
    /\ UNCHANGED <<to_check, linked, wk, ctx, units>>
    /\ UNCHANGED more

\* p.wait() returns the value the worker completed the handle with, and the
\* handler answers Response::with((status::Ok, result)).
HandlerReply(r) ==
    /\ req[r].pc = "wait"
    /\ \E i \in 1..Len(oneshot) :
        /\ oneshot[i].msg = Handle(r) /\ ~oneshot[i].taken
        /\ oneshot' = [oneshot EXCEPT ![i].taken = TRUE]
    /\ req' = [req EXCEPT ![r].pc = "done", ![r].status = Some(StatusOk)]
    /\ UNCHANGED <<segq, rwlock, tx, rx, pc, local, ret, issued, popped>>
    /\ UNCHANGED <<to_check, linked, wk, ctx, units>>
    /\ UNCHANGED <<mdl, web>>

\* Faulty variant: the unit drops the handle without completing it.
WorkerComplete_drop ==
    /\ wk.pc = "unit"
    /\ \E u \in units : units' = units \ {u}
    /\ wk' = [wk EXCEPT !.pc = "loop"]
    /\ UNCHANGED <<segq, rwlock, tx, rx, pc, local, ret, issued, popped>>
    /\ UNCHANGED <<to_check, linked, req, ctx>>
    /\ UNCHANGED more

\* The unit of main.rs: msg.complete(ctx.to_owned()); ctx is only read.
WorkerComplete ==
    /\ wk.pc = "unit"
    /\ \E u \in units :
        /\ oneshot' = complete(oneshot, u.msg, ctx)
        /\ units' = units \ {u}
    /\ wk' = [wk EXCEPT !.pc = "loop"]
    /\ UNCHANGED <<segq, rwlock, tx, rx, pc, local, ret, issued, popped>>
    /\ UNCHANGED <<to_check, linked, req, ctx>>
    /\ UNCHANGED <<mdl, web>>

\* A handler that offloads the work and does not wait for it: push has
\* returned, and the handler answers.
HandlerLeave(r) ==
    /\ req[r].pc = "handler"
    /\ pc[TxOf(r)] = "idle" /\ ret[TxOf(r)].op = "push"
    /\ ret' = [ret EXCEPT ![TxOf(r)] = NoRet]
    /\ req' = [req EXCEPT ![r].pc = "done", ![r].status = Some(StatusOk)]
    /\ UNCHANGED <<segq, rwlock, tx, rx, pc, local, issued, popped>>
    /\ UNCHANGED <<to_check, linked, wk, ctx, units>>
    /\ UNCHANGED more

\* The steps of a request thread once its request has arrived: the check,
\* and the push of an admitted request; then the wait for the reply.
CheckThenPush(r) ==
    \/ AnyCall(r)
    \/ IsFullLock(Via(r, "b1"))
    \/ IsFullRead(Via(r, "b1"))
    \/ AnyReturn(r)
    \/ AnyDone(r)
    \/ BeforeReturn(r)
    \/ HandlerPush(r)
    \/ PushLock(TxOf(r))
    \/ PushInc(TxOf(r))
    \/ PushAppend(TxOf(r))

ThreadStep(r) ==
    \/ CheckThenPush(r)
    \/ HandlerWait(r)
    \/ HandlerReply(r)

AppWorkerStep ==
    \/ WorkerTryPop
    \/ TryPopSegq("rx")
    \/ TryPopLock("rx")
    \/ TryPopDec("rx")
    \/ WorkerNone
    \/ WorkerUnitCall
    \/ WorkerComplete

NextApp ==
    \/ \E r \in Threads : Request(r)
    \/ \E r \in Threads : ThreadStep(r)
    \/ AppWorkerStep

SpecApp == InitApp /\ [][NextApp]_vars

\* The admission protocol alone: every thread checks, pushes if admitted and
\* takes the next unit of work, without waiting for the worker.
NextProtocol ==
    \/ \E r \in Threads : Request(r)
    \/ \E r \in Threads : CheckThenPush(r)
    \/ \E r \in Threads : HandlerLeave(r)
    \/ AppWorkerStep

SpecProtocol == InitApp /\ [][NextProtocol]_vars

\* Fair scheduling of the threads: a thread that can take a step is not left
\* waiting for ever, and a thread waiting for the counter lock gets it if the
\* lock is free again and again.  Nothing obliges a request to arrive.
FairApp ==
    /\ SpecApp
    /\ WF_vars(AppWorkerStep) /\ SF_vars(TryPopLock("rx"))
    /\ \A r \in Threads :
        /\ WF_vars(ThreadStep(r))
        /\ SF_vars(PushLock(TxOf(r)))
        /\ SF_vars(IsFullLock(Via(r, "b1")))

----------------------------------------------------------------------------
\* C28: in the application the counter never exceeds the number of request
\* threads, and with fewer threads than the watermark no request is
\* rejected: no is_full answers true and no check returns QueueIsFull.
C28_AtMostThreads ==
    /\ Counter <= Cardinality(Threads)
    /\ Cardinality(Threads) < MaxLenOf =>
          /\ wk.pc # "dead"
          /\ \A b \in Boxes : ret[b].op = "is_full" => ~ret[b].full
          /\ \A r \in Threads : req[r].result # "QueueIsFull"
          /\ \A r \in Threads : req[r].status # Some(InternalServerError)

\* Every thread has a request in the handler, both handles are counted, and
\* the watermark is above the number of threads.
C28_Witness ==
    /\ Cardinality(Threads) < MaxLenOf
    /\ Counter = Cardinality(Threads)
    /\ \A r \in Threads : req[r].pc = "wait" /\ issued[TxOf(r)] = MaxPush

----------------------------------------------------------------------------
\* The handles on their way to the worker or with it, in no particular
\* order, and the handles the worker has completed.
OnTheWay ==
    local["tx"] \o local["tx2"] \o Queue \o local["rx"] \o ret["rx"].msg
Completions == [i \in 1..Len(oneshot) |-> oneshot[i].msg]
InUnit == {u.msg : u \in units}

\* The requests thread r has been answered 200 for.
Replied(r) ==
    Cardinality({i \in 1..Len(oneshot) :
                    oneshot[i].taken /\ oneshot[i].msg.src = TxOf(r)})

\* C27: in the application an admitted request pushes exactly one handle and
\* then waits; it is answered 200 only by taking the value the worker
\* completed its own handle with, which is the worker's context; every
\* handle pushed is at each moment in exactly one place (on its way, in the
\* unit, or completed), so none is completed twice and none is lost; and
\* with fair scheduling every admitted request is answered in the end.
C27_EveryReply ==
    /\ [][\A r \in Threads :
            /\ (req[r].pc = "handler" /\ req'[r].pc # "handler") =>
                  /\ req'[r].pc = "wait"
                  /\ local'[TxOf(r)] = None
                  /\ Handle(r) \in Range(Queue \o local["rx"] \o ret["rx"].msg
                                            \o Completions) \cup InUnit
            /\ (req[r].pc = "handler" /\ req'[r].pc = "handler") =>
                  issued'[TxOf(r)] - issued[TxOf(r)] =
                      (IF pc[TxOf(r)] = "idle" /\ pc'[TxOf(r)] # "idle" THEN 1 ELSE 0)
            /\ req[r].pc # "handler" => issued'[TxOf(r)] = issued[TxOf(r)]
            /\ (req[r].pc = "wait" /\ req'[r].pc # "wait") =>
                  /\ req'[r].pc = "done" /\ req'[r].status = Some(StatusOk)
                  /\ \E i \in 1..Len(oneshot) :
                        /\ oneshot[i] = [msg |-> Handle(r), value |-> HelloWorld,
                                         taken |-> FALSE]
                        /\ oneshot' = [oneshot EXCEPT ![i].taken = TRUE]]_vars
    /\ [](\A p \in Producers : \A n \in 1..MaxPush :
            Cardinality({k \in 1..Len(OnTheWay \o Completions) :
                            (OnTheWay \o Completions)[k] = Msg(p, n)})
            + (IF Msg(p, n) \in InUnit THEN 1 ELSE 0)
            = (IF n <= issued[p] THEN 1 ELSE 0))
    /\ [](\A r \in Threads :
            Replied(r) = issued[TxOf(r)] - (IF req[r].pc \in {"handler", "wait"}
                                               /\ issued[TxOf(r)] > 0
                                               /\ (req[r].pc = "wait" \/ pc[TxOf(r)] # "idle"
                                                   \/ ret[TxOf(r)].op = "push")
                                            THEN 1 ELSE 0))
    /\ \A r \in Threads :
          (req[r].pc = "handler") ~> (req[r].pc = "done" /\ req[r].status = Some(StatusOk))

\* Both threads have been answered for two requests each, from four handles
\* completed with the context.
C27_Witness ==
    /\ Len(oneshot) = 2 * MaxPush
    /\ \A i \in 1..Len(oneshot) : oneshot[i].taken /\ oneshot[i].value = HelloWorld
    /\ \A r \in Threads : req[r].pc = "done" /\ req[r].status = Some(StatusOk)
                          /\ Replied(r) = MaxPush

----------------------------------------------------------------------------
\* C26: with P threads that each check and push only when admitted, on one
\* queue with watermark W >= 1, the counter is at most W + P - 1 in every
\* reachable state.
C26_Overshoot ==
    /\ MaxLenOf >= 1
    /\ Counter <= MaxLenOf + Cardinality(Threads) - 1

\* The counter is above the watermark, at W + P - 1, below the number of
\* pushes the threads could make: both threads were admitted before either
\* had counted its message.
C26_Witness ==
    /\ Counter > MaxLenOf
    /\ Counter = MaxLenOf + Cardinality(Threads) - 1
    /\ Counter < Cardinality(Threads) * MaxPush
    /\ \A r \in Threads : req[r].result = "Ok"

----------------------------------------------------------------------------
\* api-futures, host/router.rs and errors.rs: the router and its builder, a
\* request routed by it, and the conversion of errors into responses.

\* The number of handlers added to one recognizer.
MaxRoutes == 2

MethodNotAllowed == 405

Methods == {"GET", "POST", "PUT"}
Paths == {"/a", "/b", "/c"}

\* The handler types of the scenario: A implements Get, C implements Post,
\* B both; A and C have the same ROUTE.
GetHandlers == {"A", "B"}
PostHandlers == {"B", "C"}
ROUTE(h) == IF h = "B" THEN "/b" ELSE "/a"

\* ErrorKind of api-futures: the two declared kinds, the foreign link and
\* the Msg kind error_chain adds.
ErrorKinds == {"NoRouteMatch", "MethodNotSupported", "Timer", "Msg"}

\* route_recognizer: a recognizer is the list of (route, handler) added;
\* recognize gives the handler added last for the route the path matches.
Recognizer_new == <<>>
Recognizer_add(self, route, handler) ==
    Append(self, [route |-> route, handler |-> handler])
recognize(self, path) ==
    LET hits == {i \in 1..Len(self) : self[i].route = path} IN
    IF hits = {} THEN Err("no match")
    ELSE Ok(self[CHOOSE i \in hits : \A j \in hits : j <= i].handler)

\* RouterBuilder::new, get, post, build
RouterBuilder_new == [get_router |-> Recognizer_new, post_router |-> Recognizer_new]
RouterBuilder_get(self, h) ==
    [self EXCEPT !.get_router = Recognizer_add(@, ROUTE(h), h)]
RouterBuilder_post(self, h) ==
    [self EXCEPT !.post_router = Recognizer_add(@, ROUTE(h), h)]
RouterBuilder_build(self) ==
    [routers |-> [get_router |-> self.get_router, post_router |-> self.post_router]]

\* impl From<ErrorKind> for Response (and From<Error>, which takes the kind)
Response_from(kind) ==
    [status |-> IF kind = "NoRouteMatch" THEN NotFound
                ELSE IF kind = "MethodNotSupported" THEN MethodNotAllowed
                ELSE InternalServerError]

\* An HttpFuture: the handler it was made by, if any, the error it stands
\* for, if any, and what it resolved to, if it has.
finished(response, kind) ==
    [invoked |-> None, err |-> kind, out |-> Some(Ok(response))]
handler_call(h, trait) ==
    [invoked |-> Some([handler |-> h, trait |-> trait]), err |-> None, out |-> None]

\* Router::get and Router::post
Router_get(self, path) ==
    LET route == recognize(self.routers.get_router, path) IN
    IF route.ok THEN handler_call(route.val, "Get")
    ELSE finished(Response_from("NoRouteMatch"), Some("NoRouteMatch"))
Router_post(self, path) ==
    LET route == recognize(self.routers.post_router, path) IN
    IF route.ok THEN handler_call(route.val, "Post")
    ELSE finished(Response_from("NoRouteMatch"), Some("NoRouteMatch"))

\* Faulty variant: every method but GET is taken for a POST.
Router_call_lax(self, method, path) ==
    IF method = "GET" THEN Router_get(self, path) ELSE Router_get(self, path)

\* Service for Router: call
Router_call(self, method, path) ==
    IF method = "GET" THEN Router_get(self, path)
    ELSE IF method = "POST" THEN Router_post(self, path)
    ELSE finished(Response_from("MethodNotSupported"), Some("MethodNotSupported"))

\* Faulty variant: a failed future is passed on as it is.
into_http_future_raw(response) ==
    IF response.ok THEN Ok(response.val) ELSE Err(response.err)

\* IntoHttpFuture: then(|response| finished(match response { .. }))
into_http_future(response) ==
    IF response.ok THEN Ok(response.val) ELSE Ok(Response_from(response.err))

\* RouterBuilder::new(); no router built, no request made.  regs records
\* which builder method each handler was given to.
InitRouter ==
    /\ segq = <<>> /\ rwlock = <<>> /\ tx = <<>> /\ rx = <<>>
    /\ pc = <<>> /\ local = <<>> /\ ret = <<>>
    /\ issued = [p \in Producers |-> 0] /\ popped = <<>>
    /\ to_check = <<>> /\ linked = FALSE /\ req = <<>>
    /\ wk = [pc |-> "none"] /\ ctx = <<>> /\ units = {}
    /\ oneshot = <<>> /\ mdl = <<>> /\ people = <<>>
    /\ host = [builder |-> Some(RouterBuilder_new), router |-> None, regs |-> {},
               request |-> None, future |-> None]

\* builder.get(handler)
BuilderGet(h) ==
    /\ host.builder # None /\ Len(host.builder[1].get_router) < MaxRoutes
    /\ host' = [host EXCEPT !.builder = Some(RouterBuilder_get(@[1], h)),
                            !.regs = @ \cup {<<h, "GET">>}]
    /\ UNCHANGED <<segq, rwlock, tx, rx, pc, local, ret, issued, popped, env>>
    /\ UNCHANGED <<oneshot, mdl, people>>

\* builder.post(handler)
BuilderPost(h) ==
    /\ host.builder # None /\ Len(host.builder[1].post_router) < MaxRoutes
    /\ host' = [host EXCEPT !.builder = Some(RouterBuilder_post(@[1], h)),
                            !.regs = @ \cup {<<h, "POST">>}]
    /\ UNCHANGED <<segq, rwlock, tx, rx, pc, local, ret, issued, popped, env>>
    /\ UNCHANGED <<oneshot, mdl, people>>

\* builder.build(): the builder is consumed.
BuilderBuild ==
    /\ host.builder # None
    /\ host' = [host EXCEPT !.builder = None,
                            !.router = Some(RouterBuilder_build(host.builder[1]))]
    /\ UNCHANGED <<segq, rwlock, tx, rx, pc, local, ret, issued, popped, env>>
    /\ UNCHANGED <<oneshot, mdl, people>>

\* router.call(req), once the request before it has been answered.
RouterCall(method, path) ==
    /\ host.router # None
    /\ IF host.future = None THEN TRUE ELSE host.future[1].out # None
    /\ host' = [host EXCEPT !.request = Some([method |-> method, path |-> path]),
                            !.future = Some(Router_call(host.router[1], method, path))]
    /\ UNCHANGED <<segq, rwlock, tx, rx, pc, local, ret, issued, popped, env>>
    /\ UNCHANGED <<oneshot, mdl, people>>

\* The future of the handler resolves, to a response or to an application
\* error, and into_http_future makes the HttpFuture's result of it.
HandlerDone(response) ==
    /\ host.future # None /\ host.future[1].invoked # None /\ host.future[1].out = None
    /\ host' = [host EXCEPT !.future[1].err = IF response.ok THEN None ELSE Some(response.err),
                            !.future[1].out = Some(into_http_future(response))]
    /\ UNCHANGED <<segq, rwlock, tx, rx, pc, local, ret, issued, popped, env>>
    /\ UNCHANGED <<oneshot, mdl, people>>

NextRouter ==
    \/ \E h \in GetHandlers : BuilderGet(h)
    \/ \E h \in PostHandlers : BuilderPost(h)
    \/ BuilderBuild
    \/ \E m \in Methods, p \in Paths : RouterCall(m, p)
    \/ \E k \in ErrorKinds : HandlerDone(Err(k))
    \/ HandlerDone(Ok([status |-> StatusOk]))

SpecRouter == InitRouter /\ [][NextRouter]_vars

----------------------------------------------------------------------------
\* C31: a handler is invoked for a GET only if it was given to get, for a
\* POST only if it was given to post, and in both cases its route is the
\* request's path; a request with another method invokes no handler and
\* yields MethodNotSupported; a handler given to get only is not invoked for
\* a POST; and the router does not change once it is built.
C31_ByMethod ==
    /\ [](host.future # None =>
            LET f == host.future[1]
                r == host.request[1]
            IN  /\ f.invoked # None =>
                      /\ r.method \in {"GET", "POST"}
                      /\ <<f.invoked[1].handler, r.method>> \in host.regs
                      /\ f.invoked[1].trait = (IF r.method = "GET" THEN "Get" ELSE "Post")
                      /\ ROUTE(f.invoked[1].handler) = r.path
                /\ r.method \notin {"GET", "POST"} =>
                      f.invoked = None /\ f.err = Some("MethodNotSupported")
                /\ (r.method = "GET" /\ \E h \in GetHandlers :
                        <<h, "GET">> \in host.regs /\ ROUTE(h) = r.path) => f.invoked # None
                /\ (r.method = "POST" /\ \E h \in PostHandlers :
                        <<h, "POST">> \in host.regs /\ ROUTE(h) = r.path) => f.invoked # None)
    /\ [][host.router # None => (host'.router = host.router /\ host'.regs = host.regs)]_vars

\* A is given to get and nothing to post for its route: a POST to that route
\* was routed and invoked no handler.
C31_Witness ==
    /\ host.router # None /\ host.future # None
    /\ <<"A", "GET">> \in host.regs /\ <<"C", "POST">> \notin host.regs
    /\ <<"B", "POST">> \in host.regs
    /\ host.request = Some([method |-> "POST", path |-> ROUTE("A")])
    /\ host.future[1].invoked = None

----------------------------------------------------------------------------
\* C32: an HttpFuture that has resolved has resolved to a response, never to
\* a failure; if it stands for an application error the status is 404 for
\* NoRouteMatch, 405 for MethodNotSupported and 500 for any other kind; a
\* GET or POST whose path has no route in the router of its method is
\* answered 404, and a request with another method 405.
C32_ErrorsAnswered ==
    (host.future # None /\ host.future[1].out # None) =>
        LET f == host.future[1]
            r == host.request[1]
            routes == IF r.method = "GET" THEN host.router[1].routers.get_router
                      ELSE host.router[1].routers.post_router
        IN  /\ f.out[1].ok
            /\ f.err = Some("NoRouteMatch") => f.out[1].val.status = 404
            /\ f.err = Some("MethodNotSupported") => f.out[1].val.status = 405
            /\ (f.err # None /\ f.err[1] \notin {"NoRouteMatch", "MethodNotSupported"}) =>
                  f.out[1].val.status = 500
            /\ f.err = None => f.out[1].val.status = StatusOk
            /\ (r.method \in {"GET", "POST"}
                /\ \A i \in 1..Len(routes) : routes[i].route # r.path) =>
                  f.err = Some("NoRouteMatch") /\ f.out[1].val.status = 404
            /\ r.method \notin {"GET", "POST"} => f.out[1].val.status = 405

\* The future of a handler failed with a Timer error and the request was
\* answered 500.
C32_Witness ==
    /\ host.future # None /\ host.future[1].invoked # None
    /\ host.future[1].err = Some("Timer")
    /\ host.future[1].out = Some(Ok([status |-> 500]))

----------------------------------------------------------------------------
\* api, routes.rs: get_person and post_person over the Redis store, and the
\* conversion of their errors by errors.rs.

\* The id parameters and the names requests come with; the empty parameter
\* is what find("id").unwrap_or("") gives when there is none.
IdParams == {<<>>, <<"a">>, <<Quote>>}
Names == {<<"a">>, <<Backslash>>}

\* ErrorKind of api: the two declared kinds, the two foreign links and the
\* Msg kind error_chain adds.
ApiErrorKinds == {"NotAnId", "PersonNotFound", "RedisError", "JsonError", "Msg"}

\* get_id: the parameter, made an Id
get_id(param) == Id_try_from(param)

\* get_conn: Client::open and get_connection, which Redis may refuse
get_conn(up) == IF up THEN Ok("conn") ELSE Err("RedisError")

\* Faulty variant: a missing value is returned as empty data.
get_person_data_empty(store, replies, id) ==
    IF ~replies THEN Err("RedisError")
    ELSE IF store[as_ref(id)] = None THEN Ok(<<>>)
    ELSE Ok(store[as_ref(id)][1])

\* get_person_data: conn.get(id.as_ref())?, then ok_or(PersonNotFound)
get_person_data(store, replies, id) ==
    IF ~replies THEN Err("RedisError")
    ELSE IF store[as_ref(id)] = None THEN Err("PersonNotFound")
    ELSE Ok(store[as_ref(id)][1])

\* make_person: the body read as a PostPersonCommand, None being a body
\* that is no such command
make_person(body, id) ==
    IF body = None THEN Err("JsonError") ELSE Ok([id |-> id, name |-> body[1]])

\* The response of a handler: Ok(Response::with(..)), or the IronError the
\* ? operator converts the Error into.
Responded(body) == [status |-> StatusOk, body |-> body, err |-> None]
Failed(kind) == [status |-> IronError_from(kind), body |-> None, err |-> Some(kind)]

\* get_person
get_person(store, param, up, replies) ==
    LET id == get_id(param) IN
    IF ~id.ok THEN Failed(id.err)
    ELSE LET conn == get_conn(up) IN
         IF ~conn.ok THEN Failed(conn.err)
         ELSE LET person_data == get_person_data(store, replies, id.val) IN
              IF ~person_data.ok THEN Failed(person_data.err)
              ELSE Responded(Some(person_data.val))

\* post_person: the response, and the store after set_person_data
post_person(store, param, body, up, replies) ==
    LET id == get_id(param) IN
    IF ~id.ok THEN [response |-> Failed(id.err), store |-> store]
    ELSE LET conn == get_conn(up) IN
         IF ~conn.ok THEN [response |-> Failed(conn.err), store |-> store]
         ELSE LET person == make_person(body, id.val) IN
              IF ~person.ok THEN [response |-> Failed(person.err), store |-> store]
              ELSE IF ~replies THEN [response |-> Failed("RedisError"), store |-> store]
              ELSE [response |-> Responded(None),
                    store |-> [store EXCEPT ![as_ref(person.val.id)] =
                                                Some(to_string(person.val))]]

\* An empty store, no request made.
InitPeople ==
    /\ segq = <<>> /\ rwlock = <<>> /\ tx = <<>> /\ rx = <<>>
    /\ pc = <<>> /\ local = <<>> /\ ret = <<>>
    /\ issued = [p \in Producers |-> 0] /\ popped = <<>>
    /\ to_check = <<>> /\ linked = FALSE /\ req = <<>>
    /\ wk = [pc |-> "none"] /\ ctx = <<>> /\ units = {}
    /\ oneshot = <<>> /\ mdl = <<>> /\ host = <<>>
    /\ people = [store |-> [k \in IdParams |-> None], last |-> None]

\* GET /person/:id; held is what the store held for the parameter.
GetPerson(param, up, replies) ==
    /\ people' = [people EXCEPT !.last =
                     Some([handler |-> "get_person", param |-> param, up |-> up,
                           replies |-> replies, held |-> people.store[param],
                           response |-> get_person(people.store, param, up, replies)])]
    /\ UNCHANGED <<segq, rwlock, tx, rx, pc, local, ret, issued, popped, env>>
    /\ UNCHANGED <<oneshot, mdl, host>>

\* POST /person/:id
PostPerson(param, body, up, replies) ==
    LET r == post_person(people.store, param, body, up, replies) IN
    /\ people' = [store |-> r.store,
                  last |-> Some([handler |-> "post_person", param |-> param, up |-> up,
                                 replies |-> replies, held |-> people.store[param],
                                 response |-> r.response])]
    /\ UNCHANGED <<segq, rwlock, tx, rx, pc, local, ret, issued, popped, env>>
    /\ UNCHANGED <<oneshot, mdl, host>>

NextPeople ==
    \/ \E param \in IdParams, up \in BOOLEAN, replies \in BOOLEAN :
          GetPerson(param, up, replies)
    \/ \E param \in IdParams, body \in {None} \cup {Some(n) : n \in Names},
          up \in BOOLEAN, replies \in BOOLEAN :
          PostPerson(param, body, up, replies)

SpecPeople == InitPeople /\ [][NextPeople]_vars

----------------------------------------------------------------------------
====
